---- MODULE Spec2Model ----
(***************************************************************************)
(* Mathler guess-evaluation engine (apps/mathler/src/features/game/lib):   *)
(* the guess scorer checkGuess and the expression engine                   *)
(* tokenize / evaluate / evaluateExpression / isValidExpression.           *)
(*                                                                         *)
(* Strings are sequences of one-character strings.  JavaScript numbers are *)
(* modelled as exact reduced fractions [n, d] (d > 0): on the bounded      *)
(* digit runs used here every integer is exactly representable.            *)
(***************************************************************************)
EXTENDS Integers, Sequences, FiniteSets, TLC

VARIABLES guess, solution, tiles, expr, outcome, valid, normalized, operands, pc,
          game, lastSubmit,
          hintSessions, served, today, serverDay, lastPurchase,
          lastChecked,
          isLoading, purchaseError, calls,
          hasRecordedResult, isAuthenticated, resultCalls, rounds,
          userStats, stored, pendingUpdates, hintsRecorded, gamesRecorded,
          started, clientDay, lastResult

scorerVars == <<guess, solution, tiles>>
exprVars == <<expr, outcome, valid, normalized, operands>>
gameVars == <<game, lastSubmit>>
serverVars == <<hintSessions, served, today, serverDay, lastPurchase>>
middlewareVars == <<lastChecked>>
\* the state outside the engine and the game
hookVars == <<isLoading, purchaseError, calls>>
\* the state of the browser side outside the game reducer
componentVars == <<hasRecordedResult, isAuthenticated, resultCalls, rounds>>
statsVars == <<userStats, stored, pendingUpdates, hintsRecorded, gamesRecorded,
               started, clientDay, lastResult>>
clientVars == <<hookVars, componentVars, statsVars>>
otherVars == <<serverVars, middlewareVars, clientVars>>

vars == <<scorerVars, exprVars, pc, gameVars, otherVars>>

(***************************************************************************)
(* Bounds of the explored input space.                                     *)
(***************************************************************************)
MaxGuessLen == 4
MaxExprLen == 5
MaxRunLen == 2

\* characters the scorer is exercised with
GuessChars == {"1", "2", "+"}
\* characters expressions are drawn from: digits, all operators, one
\* character outside VALID_CHARS
ExprChars == {"0", "1", "2", "+", "-", "*", "/", "a"}
\* digits the operand runs of the precedence checks are drawn from
RunDigits == {"0", "2", "3"}

Strings(chars, maxLen) == UNION {[1..n -> chars] : n \in 0..maxLen}

(***************************************************************************)
(* types.ts                                                                *)
(***************************************************************************)
DIGITS == <<"0", "1", "2", "3", "4", "5", "6", "7", "8", "9">>
OPERATORS == <<"+", "-", "*", "/">>
VALID_CHARS == DIGITS \o OPERATORS

Range(s) == {s[i] : i \in 1..Len(s)}

\* value of reading past the end of a string or of an array
Undefined == "undefined"

(***************************************************************************)
(* checkGuess                                                              *)
(***************************************************************************)
\* CharAt reading one position too far to the right
CharAtShifted(s, i) == IF (i + 1) \in 1..Len(s) THEN s[i + 1] ELSE Undefined

\* s[i] of JavaScript, for a 1-based index
CharAt(s, i) == IF i \in 1..Len(s) THEN s[i] ELSE Undefined

\* remainingChars.get(c) ?? 0
GetCount(remainingChars, c) ==
    IF c \in DOMAIN remainingChars THEN remainingChars[c] ELSE 0

\* remainingChars.set(c, n)
SetCount(remainingChars, c, n) ==
    [k \in (DOMAIN remainingChars) \cup {c} |->
        IF k = c THEN n ELSE remainingChars[k]]

\* the empty Map
EmptyMap == [k \in {} |-> 0]

\* for (const char of solution) remainingChars.set(char, (get ?? 0) + 1)
RECURSIVE CountSolution(_, _, _)
CountSolution(sol, i, remainingChars) ==
    IF i > Len(sol) THEN remainingChars
    ELSE CountSolution(sol, i + 1,
            SetCount(remainingChars, sol[i], GetCount(remainingChars, sol[i]) + 1))

\* FirstPass with the decrement of line 38 forgotten
RECURSIVE FirstPassNoClaim(_, _, _, _)
FirstPassNoClaim(g, sol, i, st) ==
    IF i > Len(g) THEN st
    ELSE IF g[i] = CharAt(sol, i)
         THEN FirstPassNoClaim(g, sol, i + 1,
                [result |-> [st.result EXCEPT ![i] = "correct"],
                 remainingChars |-> st.remainingChars])
         ELSE FirstPassNoClaim(g, sol, i + 1, st)

\* first pass: mark correct positions and decrement their counts
RECURSIVE FirstPass(_, _, _, _)
FirstPass(g, sol, i, st) ==
    IF i > Len(g) THEN st
    ELSE IF g[i] = CharAt(sol, i)
         THEN FirstPass(g, sol, i + 1,
                [result |-> [st.result EXCEPT ![i] = "correct"],
                 remainingChars |-> SetCount(st.remainingChars, g[i],
                                        GetCount(st.remainingChars, g[i]) - 1)])
         ELSE FirstPass(g, sol, i + 1, st)

\* SecondPass with the decrement of line 51 forgotten
RECURSIVE SecondPassNoDecrement(_, _, _)
SecondPassNoDecrement(g, i, st) ==
    IF i > Len(g) THEN st
    ELSE IF st.result[i] = "correct" THEN SecondPassNoDecrement(g, i + 1, st)
    ELSE LET remaining == GetCount(st.remainingChars, g[i])
         IN  IF remaining > 0
             THEN SecondPassNoDecrement(g, i + 1,
                    [result |-> [st.result EXCEPT ![i] = "present"],
                     remainingChars |-> st.remainingChars])
             ELSE SecondPassNoDecrement(g, i + 1,
                    [result |-> [st.result EXCEPT ![i] = "absent"],
                     remainingChars |-> st.remainingChars])

\* second pass: mark present/absent for non-correct positions
RECURSIVE SecondPass(_, _, _)
SecondPass(g, i, st) ==
    IF i > Len(g) THEN st
    ELSE IF st.result[i] = "correct" THEN SecondPass(g, i + 1, st)
    ELSE LET remaining == GetCount(st.remainingChars, g[i])
         IN  IF remaining > 0
             THEN SecondPass(g, i + 1,
                    [result |-> [st.result EXCEPT ![i] = "present"],
                     remainingChars |-> SetCount(st.remainingChars, g[i], remaining - 1)])
             ELSE SecondPass(g, i + 1,
                    [result |-> [st.result EXCEPT ![i] = "absent"],
                     remainingChars |-> st.remainingChars])

\* checkGuess whose second pass has no `continue` for correct positions
checkGuessNoSkip(g, sol) ==
    LET st0 == [result |-> [i \in 1..Len(g) |-> "absent"],
                remainingChars |-> CountSolution(sol, 1, EmptyMap)]
        st1 == FirstPass(g, sol, 1, st0)
    IN  SecondPass(g, 1, [result |-> [i \in 1..Len(g) |-> "absent"],
                          remainingChars |-> st1.remainingChars]).result

checkGuess(g, sol) ==
    LET st0 == [result |-> [i \in 1..Len(g) |-> "absent"],
                remainingChars |-> CountSolution(sol, 1, EmptyMap)]
    IN  SecondPass(g, 1, FirstPass(g, sol, 1, st0)).result

(***************************************************************************)
(* Numbers: exact fractions n/d in lowest terms, d > 0                     *)
(***************************************************************************)
Abs(x) == IF x < 0 THEN -x ELSE x

RECURSIVE GCD(_, _)
GCD(x, y) == IF y = 0 THEN x ELSE GCD(y, x % y)

Reduce(n, d) ==
    LET g == GCD(Abs(n), d) IN [n |-> n \div g, d |-> d \div g]

IntNum(k) == [n |-> k, d |-> 1]
Add(x, y) == Reduce(x.n * y.d + y.n * x.d, x.d * y.d)
Sub(x, y) == Reduce(x.n * y.d - y.n * x.d, x.d * y.d)
Mul(x, y) == Reduce(x.n * y.n, x.d * y.d)
\* only used with y # 0
Div(x, y) ==
    IF y.n > 0 THEN Reduce(x.n * y.d, x.d * y.n)
    ELSE Reduce(-(x.n * y.d), x.d * (-y.n))

\* the results of evaluateExpression: null or a number
Null == [type |-> "null", value |-> IntNum(0)]
Number(v) == [type |-> "number", value |-> v]

(***************************************************************************)
(* Expression engine                                                       *)
(***************************************************************************)
isOperator(char) == char \in Range(OPERATORS)

isDigit(char) == char \in Range(DIGITS)

\* value of one decimal digit character
DigitValue(char) == (CHOOSE k \in 1..Len(DIGITS) : DIGITS[k] = char) - 1

\* parseInt(numStr, 10) on a non-empty run of decimal digits
RECURSIVE parseInt(_)
parseInt(numStr) ==
    IF Len(numStr) = 0 THEN 0
    ELSE 10 * parseInt(SubSeq(numStr, 1, Len(numStr) - 1))
            + DigitValue(numStr[Len(numStr)])

NumberToken(v) == [type |-> "number", value |-> v]
OperatorToken(char) == [type |-> "operator", value |-> char]
\* an array element that does not exist
NoToken == [type |-> "undefined", value |-> Undefined]

TokenAt(tokens, i) == IF i \in 1..Len(tokens) THEN tokens[i] ELSE NoToken

\* first index from i on that does not hold a digit (inner while loop)
RECURSIVE DigitRunEnd(_, _)
DigitRunEnd(e, i) ==
    IF i <= Len(e) /\ isDigit(e[i]) THEN DigitRunEnd(e, i + 1) ELSE i

\* tokenize that steps over a character it does not know
RECURSIVE tokenizeSkipInvalid(_, _, _)
tokenizeSkipInvalid(e, i, tokens) ==
    IF i > Len(e) THEN [ok |-> TRUE, tokens |-> tokens]
    ELSE IF isDigit(e[i])
         THEN LET j == DigitRunEnd(e, i)
              IN  tokenizeSkipInvalid(e, j,
                    Append(tokens, NumberToken(IntNum(parseInt(SubSeq(e, i, j - 1))))))
    ELSE IF isOperator(e[i])
         THEN tokenizeSkipInvalid(e, i + 1, Append(tokens, OperatorToken(e[i])))
    ELSE tokenizeSkipInvalid(e, i + 1, tokens)

\* tokenize: ok = FALSE stands for the null result
RECURSIVE tokenize(_, _, _)
tokenize(e, i, tokens) ==
    IF i > Len(e) THEN [ok |-> TRUE, tokens |-> tokens]
    ELSE IF isDigit(e[i])
         THEN LET j == DigitRunEnd(e, i)
              IN  tokenize(e, j,
                    Append(tokens, NumberToken(IntNum(parseInt(SubSeq(e, i, j - 1))))))
    ELSE IF isOperator(e[i])
         THEN tokenize(e, i + 1, Append(tokens, OperatorToken(e[i])))
    ELSE [ok |-> FALSE, tokens |-> <<>>]

\* MultDivPass taking the left operand from the input instead of the stack
RECURSIVE MultDivPassStaleLeft(_, _, _)
MultDivPassStaleLeft(tokens, i, afterMultDiv) ==
    IF i > Len(tokens) THEN [ok |-> TRUE, tokens |-> afterMultDiv]
    ELSE LET token == tokens[i]
         IN  IF token.type = "operator" /\ token.value \in {"*", "/"}
             THEN LET left == TokenAt(tokens, i - 1)
                      right == TokenAt(tokens, i + 1)
                  IN  IF left.type # "number" \/ right.type # "number"
                      THEN [ok |-> FALSE, tokens |-> <<>>]
                      ELSE IF token.value = "*"
                      THEN MultDivPassStaleLeft(tokens, i + 2,
                             Append(SubSeq(afterMultDiv, 1, Len(afterMultDiv) - 1),
                                    NumberToken(Mul(left.value, right.value))))
                      ELSE IF right.value = IntNum(0)
                      THEN [ok |-> FALSE, tokens |-> <<>>]
                      ELSE MultDivPassStaleLeft(tokens, i + 2,
                             Append(SubSeq(afterMultDiv, 1, Len(afterMultDiv) - 1),
                                    NumberToken(Div(left.value, right.value))))
             ELSE MultDivPassStaleLeft(tokens, i + 1, Append(afterMultDiv, token))

\* MultDivPass that yields 0 for a division by zero instead of failing
RECURSIVE MultDivPassZeroQuotient(_, _, _)
MultDivPassZeroQuotient(tokens, i, afterMultDiv) ==
    IF i > Len(tokens) THEN [ok |-> TRUE, tokens |-> afterMultDiv]
    ELSE LET token == tokens[i]
         IN  IF token.type = "operator" /\ token.value \in {"*", "/"}
             THEN LET left == TokenAt(afterMultDiv, Len(afterMultDiv))
                      right == TokenAt(tokens, i + 1)
                  IN  IF left.type # "number" \/ right.type # "number"
                      THEN [ok |-> FALSE, tokens |-> <<>>]
                      ELSE IF token.value = "*"
                      THEN MultDivPassZeroQuotient(tokens, i + 2,
                             Append(SubSeq(afterMultDiv, 1, Len(afterMultDiv) - 1),
                                    NumberToken(Mul(left.value, right.value))))
                      ELSE IF right.value = IntNum(0)
                      THEN MultDivPassZeroQuotient(tokens, i + 2,
                             Append(SubSeq(afterMultDiv, 1, Len(afterMultDiv) - 1),
                                    NumberToken(IntNum(0))))
                      ELSE MultDivPassZeroQuotient(tokens, i + 2,
                             Append(SubSeq(afterMultDiv, 1, Len(afterMultDiv) - 1),
                                    NumberToken(Div(left.value, right.value))))
             ELSE MultDivPassZeroQuotient(tokens, i + 1, Append(afterMultDiv, token))

\* first pass of evaluate: handle * and /; ok = FALSE stands for `return null`.
\* left is afterMultDiv.pop() (undefined on an empty array), right is
\* tokens[i + 1] (undefined past the end).
RECURSIVE MultDivPass(_, _, _)
MultDivPass(tokens, i, afterMultDiv) ==
    IF i > Len(tokens) THEN [ok |-> TRUE, tokens |-> afterMultDiv]
    ELSE LET token == tokens[i]
         IN  IF token.type = "operator" /\ token.value \in {"*", "/"}
             THEN LET left == TokenAt(afterMultDiv, Len(afterMultDiv))
                      right == TokenAt(tokens, i + 1)
                  IN  IF left.type # "number" \/ right.type # "number"
                      THEN [ok |-> FALSE, tokens |-> <<>>]
                      ELSE IF token.value = "*"
                      THEN MultDivPass(tokens, i + 2,
                             Append(SubSeq(afterMultDiv, 1, Len(afterMultDiv) - 1),
                                    NumberToken(Mul(left.value, right.value))))
                      ELSE IF right.value = IntNum(0)
                      THEN [ok |-> FALSE, tokens |-> <<>>]
                      ELSE MultDivPass(tokens, i + 2,
                             Append(SubSeq(afterMultDiv, 1, Len(afterMultDiv) - 1),
                                    NumberToken(Div(left.value, right.value))))
             ELSE MultDivPass(tokens, i + 1, Append(afterMultDiv, token))

\* AddSubPass that stops quietly at a missing right operand
RECURSIVE AddSubPassLenient(_, _, _)
AddSubPassLenient(afterMultDiv, i, result) ==
    IF i > Len(afterMultDiv) THEN Number(result)
    ELSE LET op == TokenAt(afterMultDiv, i)
             num == TokenAt(afterMultDiv, i + 1)
         IN  IF op.type # "operator" THEN Null
             ELSE IF num.type # "number" THEN Number(result)
             ELSE IF op.value = "+"
                  THEN AddSubPassLenient(afterMultDiv, i + 2, Add(result, num.value))
             ELSE IF op.value = "-"
                  THEN AddSubPassLenient(afterMultDiv, i + 2, Sub(result, num.value))
             ELSE Null

\* second pass of evaluate: handle + and -, from the second element on
RECURSIVE AddSubPass(_, _, _)
AddSubPass(afterMultDiv, i, result) ==
    IF i > Len(afterMultDiv) THEN Number(result)
    ELSE LET op == TokenAt(afterMultDiv, i)
             num == TokenAt(afterMultDiv, i + 1)
         IN  IF op.type # "operator" \/ num.type # "number" THEN Null
             ELSE IF op.value = "+"
                  THEN AddSubPass(afterMultDiv, i + 2, Add(result, num.value))
             ELSE IF op.value = "-"
                  THEN AddSubPass(afterMultDiv, i + 2, Sub(result, num.value))
             ELSE Null

\* one left-to-right fold over all four operators
RECURSIVE FlatPass(_, _, _)
FlatPass(tokens, i, result) ==
    IF i > Len(tokens) THEN Number(result)
    ELSE LET op == TokenAt(tokens, i)
             num == TokenAt(tokens, i + 1)
         IN  IF op.type # "operator" \/ num.type # "number" THEN Null
             ELSE IF op.value = "+" THEN FlatPass(tokens, i + 2, Add(result, num.value))
             ELSE IF op.value = "-" THEN FlatPass(tokens, i + 2, Sub(result, num.value))
             ELSE IF op.value = "*" THEN FlatPass(tokens, i + 2, Mul(result, num.value))
             ELSE IF num.value = IntNum(0) THEN Null
             ELSE FlatPass(tokens, i + 2, Div(result, num.value))

\* evaluate without the first pass: no operator precedence
evaluateNoPrecedence(tokens) ==
    IF Len(tokens) = 0 THEN Null
    ELSE IF TokenAt(tokens, 1).type # "number" THEN Null
    ELSE FlatPass(tokens, 2, tokens[1].value)

evaluate(tokens) ==
    IF Len(tokens) = 0 THEN Null
    ELSE LET first == MultDivPass(tokens, 1, <<>>)
         IN  IF ~first.ok THEN Null
             \* typeof afterMultDiv[0]?.value !== 'number'
             ELSE IF TokenAt(first.tokens, 1).type # "number" THEN Null
             ELSE AddSubPass(first.tokens, 2, first.tokens[1].value)

\* No statement of tokenize or evaluate throws on a string, so the catch
\* clause has no behaviour of its own.
evaluateExpression(e) ==
    LET tokens == tokenize(e, 1, <<>>)
    IN  IF ~tokens.ok THEN Null ELSE evaluate(tokens.tokens)

\* isValidExpression that trusts the syntax checks and never evaluates
isValidExpressionSyntaxOnly(e) ==
    IF Len(e) = 0 THEN FALSE
    ELSE IF \E i \in 1..Len(e) : e[i] \notin Range(VALID_CHARS) THEN FALSE
    ELSE IF isOperator(e[1]) THEN FALSE
    ELSE IF isOperator(e[Len(e)]) THEN FALSE
    ELSE IF \E i \in 1..(Len(e) - 1) : isOperator(e[i]) /\ isOperator(e[i + 1])
         THEN FALSE
    ELSE TRUE

isValidExpression(e) ==
    IF Len(e) = 0 THEN FALSE
    ELSE IF \E i \in 1..Len(e) : e[i] \notin Range(VALID_CHARS) THEN FALSE
    ELSE IF isOperator(e[1]) THEN FALSE
    ELSE IF isOperator(e[Len(e)]) THEN FALSE
    ELSE IF \E i \in 1..(Len(e) - 1) : isOperator(e[i]) /\ isOperator(e[i + 1])
         THEN FALSE
    ELSE evaluateExpression(e) # Null

(***************************************************************************)
(* normalizeExpression: expr.replace(/\b0+(\d)/g, '$1')                    *)
(***************************************************************************)
\* \w of the regular expression; the operators are not word characters
isWordChar(char) == isDigit(char) \/ char \in {"a", "_"}

\* \b before position i: exactly one of the two neighbours is a word character
WordBoundary(e, i) ==
    LET before == i > 1 /\ isWordChar(e[i - 1])
        here == i <= Len(e) /\ isWordChar(e[i])
    IN  before # here

\* first index from i on that does not hold "0"
RECURSIVE ZeroRunEnd(_, _)
ZeroRunEnd(e, i) ==
    IF i <= Len(e) /\ e[i] = "0" THEN ZeroRunEnd(e, i + 1) ELSE i

\* the pattern /\b0(\d)/: one zero only
MatchOneZero(e, i) ==
    IF WordBoundary(e, i) /\ i < Len(e) /\ e[i] = "0" /\ isDigit(e[i + 1])
    THEN [len |-> 2, text |-> <<e[i + 1]>>]
    ELSE [len |-> 0, text |-> <<>>]

\* the pattern /0+(\d)/: no word boundary
MatchNoBoundary(e, i) ==
    LET j == ZeroRunEnd(e, i)
    IN  IF j = i THEN [len |-> 0, text |-> <<>>]
        ELSE IF j <= Len(e) /\ isDigit(e[j])
             THEN [len |-> j - i + 1, text |-> <<e[j]>>]
        ELSE IF j - i >= 2
             THEN [len |-> j - i, text |-> <<"0">>]
        ELSE [len |-> 0, text |-> <<>>]

\* the replacement '' instead of '$1'
MatchDropsDigit(e, i) ==
    LET j == ZeroRunEnd(e, i)
    IN  IF ~WordBoundary(e, i) \/ j = i THEN [len |-> 0, text |-> <<>>]
        ELSE IF j <= Len(e) /\ isDigit(e[j])
             THEN [len |-> j - i + 1, text |-> <<>>]
        ELSE IF j - i >= 2
             THEN [len |-> j - i, text |-> <<>>]
        ELSE [len |-> 0, text |-> <<>>]

\* the match of /\b0+(\d)/ starting at position i, and its replacement $1:
\* 0+ is greedy, so it takes the whole run of zeros when a digit follows and
\* gives the last zero back to (\d) otherwise; len = 0 stands for no match
MatchLeadingZeros(e, i) ==
    LET j == ZeroRunEnd(e, i)
    IN  IF ~WordBoundary(e, i) \/ j = i THEN [len |-> 0, text |-> <<>>]
        ELSE IF j <= Len(e) /\ isDigit(e[j])
             THEN [len |-> j - i + 1, text |-> <<e[j]>>]
        ELSE IF j - i >= 2
             THEN [len |-> j - i, text |-> <<"0">>]
        ELSE [len |-> 0, text |-> <<>>]

\* global replace: scan left to right, resume after each match
RECURSIVE ReplaceAll(_, _, _)
ReplaceAll(e, i, out) ==
    IF i > Len(e) THEN out
    ELSE LET m == MatchLeadingZeros(e, i)
         IN  IF m.len > 0 THEN ReplaceAll(e, i + m.len, out \o m.text)
             ELSE ReplaceAll(e, i + 1, Append(out, e[i]))

normalizeExpression(e) == ReplaceAll(e, 1, <<>>)

(***************************************************************************)
(* Puzzles (lib/puzzles) and the game reducer (hooks/useGame.ts)           *)
(***************************************************************************)
Puzzle(t, sol) == [target |-> t, solution |-> sol]

\* the curated list with the target of the third puzzle mistyped
PUZZLES_Mistyped ==
    << Puzzle(42, <<"5", "0", "-", "8", "*", "1">>),
       Puzzle(20, <<"1", "0", "+", "5", "*", "2">>),
       Puzzle(16, <<"9", "+", "6", "*", "0", "1">>),
       Puzzle(24, <<"8", "*", "4", "-", "0", "8">>),
       Puzzle(36, <<"7", "2", "/", "2", "+", "0">>),
       Puzzle(100, <<"9", "9", "+", "1", "+", "0">>),
       Puzzle(48, <<"6", "*", "9", "-", "0", "6">>),
       Puzzle(30, <<"5", "*", "7", "-", "0", "5">>),
       Puzzle(18, <<"3", "*", "6", "*", "0", "1">>),
       Puzzle(27, <<"9", "*", "3", "+", "0", "0">>),
       Puzzle(35, <<"7", "*", "5", "+", "0", "0">>),
       Puzzle(12, <<"2", "*", "6", "+", "0", "0">>),
       Puzzle(45, <<"9", "*", "5", "+", "0", "0">>),
       Puzzle(28, <<"4", "*", "7", "+", "0", "0">>),
       Puzzle(21, <<"3", "*", "7", "+", "0", "0">>) >>

PUZZLES ==
    << Puzzle(42, <<"5", "0", "-", "8", "*", "1">>),
       Puzzle(20, <<"1", "0", "+", "5", "*", "2">>),
       Puzzle(15, <<"9", "+", "6", "*", "0", "1">>),
       Puzzle(24, <<"8", "*", "4", "-", "0", "8">>),
       Puzzle(36, <<"7", "2", "/", "2", "+", "0">>),
       Puzzle(100, <<"9", "9", "+", "1", "+", "0">>),
       Puzzle(48, <<"6", "*", "9", "-", "0", "6">>),
       Puzzle(30, <<"5", "*", "7", "-", "0", "5">>),
       Puzzle(18, <<"3", "*", "6", "*", "0", "1">>),
       Puzzle(27, <<"9", "*", "3", "+", "0", "0">>),
       Puzzle(35, <<"7", "*", "5", "+", "0", "0">>),
       Puzzle(12, <<"2", "*", "6", "+", "0", "0">>),
       Puzzle(45, <<"9", "*", "5", "+", "0", "0">>),
       Puzzle(28, <<"4", "*", "7", "+", "0", "0">>),
       Puzzle(21, <<"3", "*", "7", "+", "0", "0">>) >>

\* getDailyPuzzle on day number dayOfYear
getDailyPuzzle(dayOfYear) == PUZZLES[(dayOfYear % Len(PUZZLES)) + 1]

EQUATION_LENGTH == 6
MAX_GUESSES == 6

\* error: null
NoError == "null"

Min(a, b) == IF a < b THEN a ELSE b
Max(a, b) == IF a > b THEN a ELSE b

Spaces(n) == [i \in 1..n |-> " "]

\* s.padEnd(n, ' ')
padEnd(s, n) == IF Len(s) >= n THEN s ELSE s \o Spaces(n - Len(s))

\* s.slice(from, to) for 0 <= from
slice(s, from, to) == SubSeq(s, from + 1, Min(to, Len(s)))

\* s.slice(from)
sliceFrom(s, from) == SubSeq(s, from + 1, Len(s))

\* s.trimEnd()
RECURSIVE trimEnd(_)
trimEnd(s) ==
    IF Len(s) > 0 /\ s[Len(s)] = " " THEN trimEnd(SubSeq(s, 1, Len(s) - 1)) ELSE s

createInitialState(puzzle) ==
    [target |-> puzzle.target,
     solution |-> puzzle.solution,
     guesses |-> <<>>,
     currentInput |-> <<>>,
     state |-> "playing",
     length |-> EQUATION_LENGTH,
     maxGuesses |-> MAX_GUESSES,
     error |-> NoError,
     cursorPosition |-> 0]

\* { ...state, error: null }
clearedState(state) == [state EXCEPT !.error = NoError]

ReduceAddChar(state, char) ==
    IF state.state # "playing" THEN clearedState(state)
    ELSE LET paddedInput == padEnd(state.currentInput, state.cursorPosition)
             newInput == slice(paddedInput, 0, state.cursorPosition) \o <<char>>
                           \o sliceFrom(state.currentInput, state.cursorPosition + 1)
             newCursor == Min(state.cursorPosition + 1, state.length - 1)
         IN  [clearedState(state) EXCEPT !.currentInput = newInput,
                                         !.cursorPosition = newCursor]

\* BACKSPACE and DELETE share one case
ReduceDelete(state) ==
    IF state.state # "playing" THEN clearedState(state)
    ELSE LET paddedInput == padEnd(state.currentInput, state.length)
             newInput == trimEnd(slice(paddedInput, 0, state.cursorPosition) \o <<" ">>
                           \o sliceFrom(paddedInput, state.cursorPosition + 1))
         IN  [clearedState(state) EXCEPT !.currentInput = newInput]

ReduceMoveLeft(state) ==
    IF state.state # "playing" THEN clearedState(state)
    ELSE [clearedState(state) EXCEPT !.cursorPosition = Max(0, state.cursorPosition - 1)]

ReduceMoveRight(state) ==
    IF state.state # "playing" THEN clearedState(state)
    ELSE [clearedState(state) EXCEPT
            !.cursorPosition = Min(state.length - 1, state.cursorPosition + 1)]

\* SET_CURSOR that takes the position as given
ReduceSetCursorUnclamped(state, position) ==
    IF state.state # "playing" THEN clearedState(state)
    ELSE [clearedState(state) EXCEPT !.cursorPosition = position]

ReduceSetCursor(state, position) ==
    IF state.state # "playing" THEN clearedState(state)
    ELSE [clearedState(state) EXCEPT
            !.cursorPosition = Max(0, Min(state.length - 1, position))]

\* `Expression must equal ${state.target}`
MustEqual(target) == "Expression must equal " \o ToString(target)

\* the checks of SUBMIT with the validity check before the length check
SubmitErrorValidityFirst(state) ==
    IF ~isValidExpression(state.currentInput) THEN "Invalid expression"
    ELSE IF Len(state.currentInput) # state.length THEN "Not enough characters"
    ELSE IF evaluateExpression(state.currentInput) # Number(IntNum(state.target))
         THEN MustEqual(state.target)
    ELSE NoError

\* the checks of SUBMIT that precede checkGuess: the error they end with,
\* NoError when the input is accepted
SubmitError(state) ==
    IF Len(state.currentInput) # state.length THEN "Not enough characters"
    ELSE IF ~isValidExpression(state.currentInput) THEN "Invalid expression"
    ELSE IF evaluateExpression(state.currentInput) # Number(IntNum(state.target))
         THEN MustEqual(state.target)
    ELSE NoError

\* statuses.every((s) => s === 'correct')
AllCorrect(statuses) == \A i \in 1..Len(statuses) : statuses[i] = "correct"

\* SUBMIT that loses as soon as a guess is not a win
ReduceSubmitEagerLoss(state) ==
    IF state.state # "playing" THEN clearedState(state)
    ELSE IF SubmitError(state) # NoError
         THEN [state EXCEPT !.error = SubmitError(state)]
    ELSE LET statuses == checkGuess(state.currentInput, state.solution)
             row == [i \in 1..Len(state.currentInput) |->
                        [char |-> state.currentInput[i], status |-> statuses[i]]]
             newGuesses == Append(state.guesses, row)
             isWin == AllCorrect(statuses)
         IN  [clearedState(state) EXCEPT
                !.guesses = newGuesses,
                !.currentInput = <<>>,
                !.state = IF isWin THEN "won" ELSE "lost",
                !.cursorPosition = 0]

\* SUBMIT that wins on any accepted guess
ReduceSubmitValueWins(state) ==
    IF state.state # "playing" THEN clearedState(state)
    ELSE IF SubmitError(state) # NoError
         THEN [state EXCEPT !.error = SubmitError(state)]
    ELSE LET statuses == checkGuess(state.currentInput, state.solution)
             row == [i \in 1..Len(state.currentInput) |->
                        [char |-> state.currentInput[i], status |-> statuses[i]]]
             newGuesses == Append(state.guesses, row)
         IN  [clearedState(state) EXCEPT
                !.guesses = newGuesses,
                !.currentInput = <<>>,
                !.state = "won",
                !.cursorPosition = 0]

\* SUBMIT without the comparison with the target
ReduceSubmitNoTarget(state) ==
    IF state.state # "playing" THEN clearedState(state)
    ELSE IF Len(state.currentInput) # state.length
         THEN [state EXCEPT !.error = "Not enough characters"]
    ELSE IF ~isValidExpression(state.currentInput)
         THEN [state EXCEPT !.error = "Invalid expression"]
    ELSE LET statuses == checkGuess(state.currentInput, state.solution)
             row == [i \in 1..Len(state.currentInput) |->
                        [char |-> state.currentInput[i], status |-> statuses[i]]]
             newGuesses == Append(state.guesses, row)
             isWin == AllCorrect(statuses)
             isLoss == ~isWin /\ Len(newGuesses) >= state.maxGuesses
         IN  [clearedState(state) EXCEPT
                !.guesses = newGuesses,
                !.currentInput = <<>>,
                !.state = IF isWin THEN "won" ELSE IF isLoss THEN "lost" ELSE "playing",
                !.cursorPosition = 0]

ReduceSubmit(state) ==
    IF state.state # "playing" THEN clearedState(state)
    ELSE IF SubmitError(state) # NoError
         THEN [state EXCEPT !.error = SubmitError(state)]
    ELSE LET statuses == checkGuess(state.currentInput, state.solution)
             row == [i \in 1..Len(state.currentInput) |->
                        [char |-> state.currentInput[i], status |-> statuses[i]]]
             newGuesses == Append(state.guesses, row)
             isWin == AllCorrect(statuses)
             isLoss == ~isWin /\ Len(newGuesses) >= state.maxGuesses
         IN  [clearedState(state) EXCEPT
                !.guesses = newGuesses,
                !.currentInput = <<>>,
                !.state = IF isWin THEN "won" ELSE IF isLoss THEN "lost" ELSE "playing",
                !.cursorPosition = 0]

\* USE_HINT that also writes into a finished game
ReduceUseHintAlways(state, position, char) ==
    LET paddedInput == padEnd(state.currentInput, state.length)
        newInput == trimEnd(slice(paddedInput, 0, position) \o <<char>>
                      \o sliceFrom(paddedInput, position + 1))
    IN  [clearedState(state) EXCEPT !.currentInput = newInput]

ReduceUseHint(state, position, char) ==
    IF state.state # "playing" THEN clearedState(state)
    ELSE LET paddedInput == padEnd(state.currentInput, state.length)
             newInput == trimEnd(slice(paddedInput, 0, position) \o <<char>>
                           \o sliceFrom(paddedInput, position + 1))
         IN  [clearedState(state) EXCEPT !.currentInput = newInput]

\* what a SUBMIT did: whether checkGuess was called, and with what
NoSubmit ==
    [happened |-> FALSE, accepted |-> FALSE, input |-> <<>>, solution |-> <<>>,
     statuses |-> <<>>]

SubmitRecord(state) ==
    IF state.state # "playing" THEN NoSubmit
    ELSE IF SubmitError(state) # NoError
         THEN [happened |-> TRUE, accepted |-> FALSE, input |-> state.currentInput,
               solution |-> state.solution, statuses |-> <<>>]
    ELSE [happened |-> TRUE, accepted |-> TRUE, input |-> state.currentInput,
          solution |-> state.solution,
          statuses |-> checkGuess(state.currentInput, state.solution)]

\* no game is mounted
NoGame == createInitialState(Puzzle(0, <<>>))

(***************************************************************************)
(* Purchase endpoint of createBipsServer (packages/server) and the hint    *)
(* server built on it (apps/mathler/server).  Item ids, wallet addresses,  *)
(* error messages and dates are atomic values: strings, and day numbers    *)
(* for the UTC date of the session key and the local day of the year of    *)
(* the daily puzzle.  The action starts where express dispatches the       *)
(* request to the route handler.                                           *)
(***************************************************************************)
Item(id, name, price) == [id |-> id, name |-> name, price |-> price]
\* Array.prototype.find found nothing
NoItem == Item(Undefined, Undefined, Undefined)

\* config.items.find((item) => item.id === itemId)
findItem(config, itemId) ==
    LET hits == {i \in 1..Len(config.items) : config.items[i].id = itemId}
    IN IF hits = {} THEN NoItem
       ELSE config.items[CHOOSE i \in hits : \A j \in hits : i <= j]

\* a hint, the data of a successful hint purchase
Hint(position, char) == [position |-> position, char |-> char]
\* data: undefined, and revealNextHint's null
NoData == Hint(0 - 1, Undefined)

\* what a call of onPurchase does: resolve to a PurchaseResult, or throw
PurchaseResult(success, data, error) ==
    [success |-> success, data |-> data, error |-> error, throws |-> FALSE]
Thrown == [success |-> FALSE, data |-> NoData, error |-> Undefined, throws |-> TRUE]

\* res.status(status).json(body); keys are the properties JSON keeps
Response(status, keys, success, data, error) ==
    [status |-> status, keys |-> keys, success |-> success, data |-> data,
     error |-> error]
NoResponse == Response(0, {}, FALSE, NoData, Undefined)

\* JSON.stringify drops properties whose value is undefined
Defined(key, value, undefinedValue) == IF value = undefinedValue THEN {} ELSE {key}

\* a failed handler answered with 200
purchaseEndpointAlwaysOk(config, itemId, result) ==
    IF itemId = ""
    THEN [called |-> FALSE,
          response |-> Response(400, {"error"}, FALSE, NoData, "Missing itemId")]
    ELSE IF findItem(config, itemId) = NoItem
    THEN [called |-> FALSE,
          response |-> Response(404, {"error"}, FALSE, NoData,
                                "Item \"" \o itemId \o "\" not found")]
    ELSE IF result.throws
    THEN [called |-> TRUE,
          response |-> Response(500, {"success", "error"}, FALSE, NoData,
                                "Internal server error")]
    ELSE [called |-> TRUE,
          response |-> Response(200,
                         {"success"} \cup Defined("data", result.data, NoData),
                         TRUE, result.data, Undefined)]

\* app.post('/api/bips/purchase/:itemId', ...): the response sent, and
\* whether onPurchase was called; result is what that call does
purchaseEndpoint(config, itemId, result) ==
    IF itemId = ""
    THEN [called |-> FALSE,
          response |-> Response(400, {"error"}, FALSE, NoData, "Missing itemId")]
    ELSE IF findItem(config, itemId) = NoItem
    THEN [called |-> FALSE,
          response |-> Response(404, {"error"}, FALSE, NoData,
                                "Item \"" \o itemId \o "\" not found")]
    ELSE IF result.throws
    THEN [called |-> TRUE,
          response |-> Response(500, {"success", "error"}, FALSE, NoData,
                                "Internal server error")]
    ELSE IF result.success
    THEN [called |-> TRUE,
          response |-> Response(200,
                         {"success"} \cup Defined("data", result.data, NoData),
                         TRUE, result.data, Undefined)]
    ELSE [called |-> TRUE,
          response |-> Response(400,
                         {"success"} \cup Defined("error", result.error, Undefined),
                         FALSE, NoData, result.error)]

\* the server's own copy of the curated puzzles
ServerPUZZLES ==
    << Puzzle(42, <<"5", "0", "-", "8", "*", "1">>),
       Puzzle(20, <<"1", "0", "+", "5", "*", "2">>),
       Puzzle(15, <<"9", "+", "6", "*", "0", "1">>),
       Puzzle(24, <<"8", "*", "4", "-", "0", "8">>),
       Puzzle(36, <<"7", "2", "/", "2", "+", "0">>),
       Puzzle(100, <<"9", "9", "+", "1", "+", "0">>),
       Puzzle(48, <<"6", "*", "9", "-", "0", "6">>),
       Puzzle(30, <<"5", "*", "7", "-", "0", "5">>),
       Puzzle(18, <<"3", "*", "6", "*", "0", "1">>),
       Puzzle(27, <<"9", "*", "3", "+", "0", "0">>),
       Puzzle(35, <<"7", "*", "5", "+", "0", "0">>),
       Puzzle(12, <<"2", "*", "6", "+", "0", "0">>),
       Puzzle(45, <<"9", "*", "5", "+", "0", "0">>),
       Puzzle(28, <<"4", "*", "7", "+", "0", "0">>),
       Puzzle(21, <<"3", "*", "7", "+", "0", "0">>) >>

\* the server's getDailyPuzzle, on the local day of the year
serverGetDailyPuzzle(localDay) ==
    ServerPUZZLES[(localDay % Len(ServerPUZZLES)) + 1]

\* `${walletAddress}:${today}`, today the UTC date
getSessionKey(walletAddress, utcDate) == <<walletAddress, utcDate>>

\* hintSessions after getRevealedPositions: the key has a set
getRevealedPositions(sessions, walletAddress, utcDate) ==
    LET key == getSessionKey(walletAddress, utcDate)
    IN IF key \in DOMAIN sessions THEN sessions ELSE sessions @@ (key :> {})

\* the hint is returned without being added to the revealed set
revealNextHintNoAdd(sessions, walletAddress, utcDate, localDay) ==
    LET puzzle == serverGetDailyPuzzle(localDay)
        key == getSessionKey(walletAddress, utcDate)
        opened == getRevealedPositions(sessions, walletAddress, utcDate)
        unrevealed == {i \in 0..(Len(puzzle.solution) - 1) : i \notin opened[key]}
    IN IF unrevealed = {}
       THEN [hint |-> NoData, sessions |-> opened]
       ELSE LET i == CHOOSE p \in unrevealed : \A q \in unrevealed : p <= q
            IN [hint |-> Hint(i, puzzle.solution[i + 1]), sessions |-> opened]

\* revealNextHint: the hint returned (NoData for null) and hintSessions after
revealNextHint(sessions, walletAddress, utcDate, localDay) ==
    LET puzzle == serverGetDailyPuzzle(localDay)
        key == getSessionKey(walletAddress, utcDate)
        opened == getRevealedPositions(sessions, walletAddress, utcDate)
        unrevealed == {i \in 0..(Len(puzzle.solution) - 1) : i \notin opened[key]}
    IN IF unrevealed = {}
       THEN [hint |-> NoData, sessions |-> opened]
       ELSE LET i == CHOOSE p \in unrevealed : \A q \in unrevealed : p <= q
            IN [hint |-> Hint(i, puzzle.solution[i + 1]),
                sessions |-> [opened EXCEPT ![key] = opened[key] \cup {i}]]

\* (req.headers['x-wallet-address'] as string) || 'demo'
walletAddressOf(header) == IF header \in {Undefined, ""} THEN "demo" ELSE header

\* the mathler server's onPurchase: its result and hintSessions after
mathlerOnPurchase(itemId, header, sessions, utcDate, localDay) ==
    LET walletAddress == walletAddressOf(header)
        revealed == revealNextHint(sessions, walletAddress, utcDate, localDay)
    IN IF itemId = "hint"
       THEN IF revealed.hint = NoData
            THEN [result |-> PurchaseResult(FALSE, NoData,
                                            "All positions already revealed"),
                  sessions |-> revealed.sessions]
            ELSE [result |-> PurchaseResult(TRUE, revealed.hint, Undefined),
                  sessions |-> revealed.sessions]
       ELSE [result |-> PurchaseResult(FALSE, NoData, "Unknown item: " \o itemId),
             sessions |-> sessions]

\* the mathler server's configuration
bipsConfig == [appId |-> "mathler", items |-> << Item("hint", "Hint", "0.05") >>]
\* the configuration of the integration tests
testConfig ==
    [appId |-> "test-app",
     items |-> << Item("hint", "Hint", "0.05"),
                  Item("extra-life", "Extra Life", "0.10") >>]

\* no request has been handled
NoPurchase ==
    [happened |-> FALSE, app |-> "", itemId |-> "", header |-> Undefined,
     utcDate |-> 0, localDay |-> 0, called |-> FALSE, result |-> Thrown,
     response |-> NoResponse, servedBefore |-> <<>>]

\* no server is running
ServerIdle ==
    /\ hintSessions = <<>> /\ served = <<>>
    /\ today = 0 /\ serverDay = 0
    /\ lastPurchase = NoPurchase

\* req.bipsPurchase, without the timestamp
BipsPurchase(itemId, price) == [itemId |-> itemId, price |-> price]
NoBipsPurchase == BipsPurchase(Undefined, Undefined)

\* what awaiting verifyPayment does: the placeholder resolves to false
verifyPayment == "false"

\* what the middleware did with a request: the responses it sent, whether
\* it called next, and req.bipsPurchase
Handled(responses, next, purchase) ==
    [responses |-> responses, next |-> next, bipsPurchase |-> purchase]

\* next is called although the payment is invalid
bipsMiddlewareLenient(config, itemId, paymentHeader, verification) ==
    LET item == findItem(config, itemId)
    IN IF itemId = ""
       THEN Handled(<<Response(400, {"error"}, FALSE, NoData,
                               "Missing itemId parameter")>>,
                    FALSE, NoBipsPurchase)
       ELSE IF item = NoItem
       THEN Handled(<<Response(404, {"error"}, FALSE, NoData,
                               "Item \"" \o itemId \o "\" not found")>>,
                    FALSE, NoBipsPurchase)
       ELSE IF paymentHeader \in {Undefined, ""}
       THEN Handled(<<Response(402, {"error", "item", "paymentRequirements"},
                               FALSE, NoData, "Payment required")>>,
                    FALSE, NoBipsPurchase)
       ELSE IF verification = "throws"
       THEN Handled(<<Response(500, {"error"}, FALSE, NoData,
                               "Payment verification failed")>>,
                    FALSE, NoBipsPurchase)
       ELSE Handled(<<>>, TRUE, BipsPurchase(item.id, item.price))

\* the request handler bipsMiddleware returns; verification is what
\* awaiting verifyPayment does: "true", "false" or "throws"
bipsMiddleware(config, itemId, paymentHeader, verification) ==
    LET item == findItem(config, itemId)
    IN IF itemId = ""
       THEN Handled(<<Response(400, {"error"}, FALSE, NoData,
                               "Missing itemId parameter")>>,
                    FALSE, NoBipsPurchase)
       ELSE IF item = NoItem
       THEN Handled(<<Response(404, {"error"}, FALSE, NoData,
                               "Item \"" \o itemId \o "\" not found")>>,
                    FALSE, NoBipsPurchase)
       ELSE IF paymentHeader \in {Undefined, ""}
       THEN Handled(<<Response(402, {"error", "item", "paymentRequirements"},
                               FALSE, NoData, "Payment required")>>,
                    FALSE, NoBipsPurchase)
       ELSE IF verification = "throws"
       THEN Handled(<<Response(500, {"error"}, FALSE, NoData,
                               "Payment verification failed")>>,
                    FALSE, NoBipsPurchase)
       ELSE IF verification = "false"
       THEN Handled(<<Response(402, {"error"}, FALSE, NoData,
                               "Invalid payment")>>,
                    FALSE, NoBipsPurchase)
       ELSE Handled(<<>>, TRUE, BipsPurchase(item.id, item.price))

\* no request has passed the middleware
NoChecked ==
    [happened |-> FALSE, itemId |-> "", paymentHeader |-> Undefined,
     verification |-> verifyPayment, handled |-> Handled(<<>>, FALSE, NoBipsPurchase)]

MiddlewareIdle == lastChecked = NoChecked

(***************************************************************************)
(* useBipsPurchase (packages/react): the hook's state and the purchase     *)
(* calls in progress.  A call advances from one await to the next; the     *)
(* setState calls of one continuation take effect together.                *)
(***************************************************************************)
\* a call of purchase(itemId): where it is waiting, and the code it settled with
Call(stage, itemId, code) == [stage |-> stage, itemId |-> itemId, code |-> code]
NoCall == Call("idle", "", "")
\* stages at which the promise of a call is pending
PendingStages ==
    {"getNetwork", "switchNetwork", "createDynamicSigner", "fetch",
     "errorJson", "dataJson"}

\* useState(false), useState(null), and no call made
HookIdle ==
    /\ isLoading = FALSE
    /\ purchaseError = NoError
    /\ calls = <<>>

(***************************************************************************)
(* The Game component (apps/mathler): the effects that record a finished   *)
(* game.  A commit runs the effects whose dependencies changed; a state    *)
(* update made by an effect causes a further commit.                       *)
(***************************************************************************)
\* a call recordGameResult(won, guesses)
ResultCall(won, guesses) == [won |-> won, guesses |-> guesses]

\* what the effects of one commit do: the flag after them and the calls of
\* recordGameResult they made
Effects(flag, resultCalled) == [flag |-> flag, calls |-> resultCalled]

\* the recording effect without the test of hasRecordedResult
EffectsOnceUnflagged(state, flag, authenticated, recordRuns, resetRuns) ==
    LET records == recordRuns /\ state.state # "playing" /\ authenticated
        resets == resetRuns /\ state.state = "playing"
    IN Effects(IF resets THEN FALSE ELSE IF records THEN TRUE ELSE flag,
               IF records
               THEN <<ResultCall(state.state = "won", Len(state.guesses))>>
               ELSE <<>>)

\* the two effects after one commit; recordRuns and resetRuns tell whether
\* a dependency of the recording effect, of the resetting effect, changed
EffectsOnce(state, flag, authenticated, recordRuns, resetRuns) ==
    LET records == recordRuns /\ state.state # "playing" /\ ~flag /\ authenticated
        resets == resetRuns /\ state.state = "playing"
    IN Effects(IF resets THEN FALSE ELSE IF records THEN TRUE ELSE flag,
               IF records
               THEN <<ResultCall(state.state = "won", Len(state.guesses))>>
               ELSE <<>>)

\* the commits that follow one event, until no effect changes the flag
RECURSIVE RunEffects(_, _, _, _, _)
RunEffects(state, flag, authenticated, recordRuns, resetRuns) ==
    LET first == EffectsOnce(state, flag, authenticated, recordRuns, resetRuns)
    IN IF first.flag = flag THEN first
       ELSE LET rest == RunEffects(state, first.flag, authenticated, TRUE, FALSE)
            IN Effects(rest.flag, first.calls \o rest.calls)

\* useState(false), no user, nothing recorded
ComponentIdle ==
    /\ hasRecordedResult = FALSE
    /\ isAuthenticated = FALSE
    /\ resultCalls = <<>>
    /\ rounds = 0

(***************************************************************************)
(* useUserStats (apps/mathler): the stats kept in the user's metadata.     *)
(* Dates are day numbers; stats is what the last render parsed from        *)
(* user.metadata, and an update is the metadata one updateUser call sends. *)
(***************************************************************************)
\* lastPlayedDate: null
NoDate == 0 - 1

\* guessDistribution: { 1: 0, 2: 0, 3: 0, 4: 0, 5: 0, 6: 0 }
EmptyDistribution == [g \in 1..6 |-> 0]

DEFAULT_STATS ==
    [gamesPlayed |-> 0,
     gamesWon |-> 0,
     currentStreak |-> 0,
     maxStreak |-> 0,
     guessDistribution |-> EmptyDistribution,
     lastPlayedDate |-> NoDate,
     lastResult |-> "null",
     hintsPurchased |-> 0]

\* dateStr is the day before todayDate
isYesterday(dateStr, todayDate) == dateStr = todayDate - 1

\* recordGameResult whose maxStreak is the new streak
recordGameResultNoMax(stats, won, guesses, todayDate) ==
    LET newStreak ==
            IF won
            THEN IF stats.lastPlayedDate # NoDate
                    /\ isYesterday(stats.lastPlayedDate, todayDate)
                 THEN stats.currentStreak + 1
                 ELSE IF stats.lastPlayedDate # todayDate THEN 1
                 ELSE stats.currentStreak
            ELSE 0
        newGuessDistribution ==
            IF won /\ guesses >= 1 /\ guesses <= 6
            THEN [stats.guessDistribution EXCEPT ![guesses] = @ + 1]
            ELSE stats.guessDistribution
    IN [gamesPlayed |-> stats.gamesPlayed + 1,
        gamesWon |-> stats.gamesWon + (IF won THEN 1 ELSE 0),
        currentStreak |-> newStreak,
        maxStreak |-> newStreak,
        guessDistribution |-> newGuessDistribution,
        lastPlayedDate |-> todayDate,
        lastResult |-> IF won THEN "won" ELSE "lost",
        hintsPurchased |-> stats.hintsPurchased]

\* the newStats recordGameResult sends to updateUser
recordGameResult(stats, won, guesses, todayDate) ==
    LET newStreak ==
            IF won
            THEN IF stats.lastPlayedDate # NoDate
                    /\ isYesterday(stats.lastPlayedDate, todayDate)
                 THEN stats.currentStreak + 1
                 ELSE IF stats.lastPlayedDate # todayDate THEN 1
                 ELSE stats.currentStreak
            ELSE 0
        newGuessDistribution ==
            IF won /\ guesses >= 1 /\ guesses <= 6
            THEN [stats.guessDistribution EXCEPT ![guesses] = @ + 1]
            ELSE stats.guessDistribution
    IN [gamesPlayed |-> stats.gamesPlayed + 1,
        gamesWon |-> stats.gamesWon + (IF won THEN 1 ELSE 0),
        currentStreak |-> newStreak,
        maxStreak |-> Max(stats.maxStreak, newStreak),
        guessDistribution |-> newGuessDistribution,
        lastPlayedDate |-> todayDate,
        lastResult |-> IF won THEN "won" ELSE "lost",
        hintsPurchased |-> stats.hintsPurchased]

\* the newStats recordHintPurchase sends to updateUser
recordHintPurchase(stats) == [stats EXCEPT !.hintsPurchased = @ + 1]

\* an updateUser call in flight
Update(kind, newStats) == [kind |-> kind, newStats |-> newStats]

\* a sequence without its i-th element
Without(seq, i) == SubSeq(seq, 1, i - 1) \o SubSeq(seq, i + 1, Len(seq))

\* the last completed recordGameResult: its arguments, the stats it read
\* and the date it ran on
ResultRecord(happened, won, before, todayDate) ==
    [happened |-> happened, won |-> won, before |-> before, date |-> todayDate]
NoResultRecord == ResultRecord(FALSE, FALSE, DEFAULT_STATS, 0)

\* no user
StatsIdle ==
    /\ userStats = DEFAULT_STATS
    /\ stored = DEFAULT_STATS
    /\ pendingUpdates = <<>>
    /\ hintsRecorded = 0
    /\ gamesRecorded = 0
    /\ started = 0
    /\ clientDay = 0
    /\ lastResult = NoResultRecord

ClientIdle == HookIdle /\ ComponentIdle /\ StatsIdle

OthersIdle == ServerIdle /\ MiddlewareIdle /\ ClientIdle

(***************************************************************************)
(* Scorer specification: any guess against any solution.                   *)
(***************************************************************************)
InitGuess ==
    /\ guess \in Strings(GuessChars, MaxGuessLen)
    /\ solution \in Strings(GuessChars, MaxGuessLen)
    /\ tiles = <<>>
    /\ expr = <<>>
    /\ outcome = Null
    /\ valid = FALSE
    /\ normalized = <<>>
    /\ game = NoGame
    /\ lastSubmit = NoSubmit
    /\ OthersIdle
    /\ operands = <<>>
    /\ pc = "ready"

CheckGuessCall ==
    /\ pc = "ready"
    /\ tiles' = checkGuess(guess, solution)
    /\ pc' = "scored"
    /\ UNCHANGED <<guess, solution, exprVars, gameVars, otherVars>>

NextGuess == CheckGuessCall

SpecGuess == InitGuess /\ [][NextGuess]_vars

(***************************************************************************)
(* Expression specifications: evaluate, then validate, one expression.     *)
(***************************************************************************)
\* any string over ExprChars
InitExpr ==
    /\ expr \in Strings(ExprChars, MaxExprLen)
    /\ operands = <<>>
    /\ outcome = Null
    /\ valid = FALSE
    /\ normalized = <<>>
    /\ game = NoGame
    /\ lastSubmit = NoSubmit
    /\ OthersIdle
    /\ guess = <<>>
    /\ solution = <<>>
    /\ tiles = <<>>
    /\ pc = "ready"

\* non-empty digit runs, leading zeros allowed
Runs == Strings(RunDigits, MaxRunLen) \ {<<>>}

\* an expression a op1 b op2 c of three digit runs and two operators
InitPrec ==
    /\ operands \in Runs \X Range(OPERATORS) \X Runs \X Range(OPERATORS) \X Runs
    /\ expr = operands[1] \o <<operands[2]>> \o operands[3]
                \o <<operands[4]>> \o operands[5]
    /\ outcome = Null
    /\ valid = FALSE
    /\ normalized = <<>>
    /\ game = NoGame
    /\ lastSubmit = NoSubmit
    /\ OthersIdle
    /\ guess = <<>>
    /\ solution = <<>>
    /\ tiles = <<>>
    /\ pc = "ready"

EvaluateCall ==
    /\ pc = "ready"
    /\ outcome' = evaluateExpression(expr)
    /\ pc' = "evaluated"
    /\ UNCHANGED <<scorerVars, gameVars, otherVars, expr, valid, normalized, operands>>

ValidateCall ==
    /\ pc = "evaluated"
    /\ valid' = isValidExpression(expr)
    /\ pc' = "validated"
    /\ UNCHANGED <<scorerVars, gameVars, otherVars, expr, outcome, normalized, operands>>

NormalizeCall ==
    /\ pc = "validated"
    /\ normalized' = normalizeExpression(expr)
    /\ pc' = "normalized"
    /\ UNCHANGED <<scorerVars, gameVars, otherVars, expr, outcome, valid, operands>>

NextExpr == EvaluateCall \/ ValidateCall \/ NormalizeCall

SpecExpr == InitExpr /\ [][NextExpr]_vars

SpecPrec == InitPrec /\ [][NextExpr]_vars

(***************************************************************************)
(* Properties of the scorer                                                *)
(***************************************************************************)
Scored == pc = "scored"
EqualLength == Len(guess) = Len(solution)

\* number of occurrences of c in s
Occurrences(s, c) == Cardinality({i \in 1..Len(s) : s[i] = c})
\* positions where guess and solution both hold c
ExactPositions(c) ==
    {i \in 1..Len(guess) : guess[i] = c /\ CharAt(solution, i) = c}
\* non-exact positions of the guess holding c, up to and including i
NonExactUpTo(c, i) ==
    {j \in 1..i : guess[j] = c /\ CharAt(solution, j) # c}

\* C1: for equal-length inputs and every character c, the positions marked
\* correct or present whose guess character is c are never more than the
\* occurrences of c in the solution.
C1_MatchesBoundedBySolution ==
    (Scored /\ EqualLength) =>
        \A c \in Range(guess) :
            Cardinality({i \in 1..Len(guess) :
                            guess[i] = c /\ tiles[i] \in {"correct", "present"}})
                <= Occurrences(solution, c)

\* a guess with more copies of a character than the solution, some of them
\* matched
C1_Witness ==
    /\ Scored /\ EqualLength
    /\ \E c \in Range(guess) :
          /\ Occurrences(guess, c) > Occurrences(solution, c)
          /\ Occurrences(solution, c) > 0
          /\ \E i \in 1..Len(guess) : guess[i] = c /\ tiles[i] = "present"
          /\ \E i \in 1..Len(guess) : guess[i] = c /\ tiles[i] = "absent"

\* C2: exact matches claim solution characters first: the k-th non-exact
\* position of the guess holding c is present iff k <= S - E (S occurrences
\* of c in the solution, E exact matches of c), absent otherwise.
C2_ExactMatchesClaimFirst ==
    (Scored /\ EqualLength) =>
        \A i \in 1..Len(guess) :
            guess[i] # solution[i] =>
                LET c == guess[i]
                    k == Cardinality(NonExactUpTo(c, i))
                    S == Occurrences(solution, c)
                    E == Cardinality(ExactPositions(c))
                IN  tiles[i] = (IF k <= S - E THEN "present" ELSE "absent")

\* an exact match at a higher index takes the only copy away from an earlier
\* misplaced one
C2_Witness ==
    /\ Scored /\ EqualLength
    /\ \E i, j \in 1..Len(guess) :
          /\ i < j
          /\ guess[i] = guess[j]
          /\ guess[j] = solution[j]
          /\ guess[i] # solution[i]
          /\ Occurrences(solution, guess[i]) = Cardinality(ExactPositions(guess[i]))
          /\ tiles[i] = "absent"

\* C3: for equal-length inputs position i is correct iff guess[i] equals
\* solution[i].
C3_CorrectIffEqual ==
    (Scored /\ EqualLength) =>
        \A i \in 1..Len(guess) :
            (tiles[i] = "correct") <=> (guess[i] = solution[i])

\* a scored guess with an equal position, and a differing position whose
\* character the solution holds elsewhere
C3_Witness ==
    /\ Scored /\ EqualLength
    /\ \E i, j \in 1..Len(guess) :
          /\ guess[i] = solution[i] /\ tiles[i] = "correct"
          /\ guess[j] # solution[j] /\ tiles[j] = "present"

\* C4: a guess equal to the solution is correct at every position.
C4_EqualIsAllCorrect ==
    (Scored /\ guess = solution) =>
        \A i \in 1..Len(guess) : tiles[i] = "correct"

\* the solution itself, with a repeated character, has been scored
C4_Witness ==
    /\ Scored /\ guess = solution
    /\ Len(guess) = MaxGuessLen
    /\ \E i, j \in 1..Len(guess) : i # j /\ guess[i] = guess[j]
    /\ tiles = [i \in 1..Len(guess) |-> "correct"]

(***************************************************************************)
(* Properties of the expression engine                                     *)
(***************************************************************************)
Evaluated == pc \in {"evaluated", "validated", "normalized"}
Validated == pc \in {"validated", "normalized"}
Normalized == pc = "normalized"

LowOps == {"+", "-"}
HighOps == {"*", "/"}
Alphabet == {"0", "1", "2", "3", "4", "5", "6", "7", "8", "9", "+", "-", "*", "/"}
Operator(char) == char \in LowOps \cup HighOps
Digit(char) == char \in Alphabet \ (LowOps \cup HighOps)

RECURSIVE Pow10(_)
Pow10(k) == IF k = 0 THEN 1 ELSE 10 * Pow10(k - 1)

\* the integer a digit run denotes, leading zeros allowed
RECURSIVE DecimalValue(_)
DecimalValue(run) ==
    IF run = <<>> THEN 0
    ELSE DigitValue(Head(run)) * Pow10(Len(run) - 1) + DecimalValue(Tail(run))

\* x op y, for y # 0 when op is "/"
Bin(op, x, y) ==
    CASE op = "+" -> Add(x, y)
      [] op = "-" -> Sub(x, y)
      [] op = "*" -> Mul(x, y)
      [] op = "/" -> Div(x, y)

ValA == IntNum(DecimalValue(operands[1]))
ValB == IntNum(DecimalValue(operands[3]))
ValC == IntNum(DecimalValue(operands[5]))
Op1 == operands[2]
Op2 == operands[4]
Zero == IntNum(0)

\* C5: in "a op1 b op2 c" a '*' or '/' is reduced before a '+' or '-' on
\* either side of it; "a+b*c" is a + (b*c), and where the two groupings
\* differ in value it is not (a+b)*c.
C5_MultDivBeforeAddSub ==
    (Evaluated /\ operands # <<>>) =>
        /\ (Op1 \in LowOps /\ Op2 \in HighOps) =>
              outcome = (IF Op2 = "/" /\ ValC = Zero THEN Null
                         ELSE Number(Bin(Op1, ValA, Bin(Op2, ValB, ValC))))
        /\ (Op1 \in HighOps /\ Op2 \in LowOps) =>
              outcome = (IF Op1 = "/" /\ ValB = Zero THEN Null
                         ELSE Number(Bin(Op2, Bin(Op1, ValA, ValB), ValC)))
        /\ (Op1 = "+" /\ Op2 = "*"
              /\ Add(ValA, Mul(ValB, ValC)) # Mul(Add(ValA, ValB), ValC)) =>
              outcome # Number(Mul(Add(ValA, ValB), ValC))

\* "a+b*c" with a leading zero in a run, where the groupings differ
C5_Witness ==
    /\ Evaluated /\ operands # <<>>
    /\ Op1 = "+" /\ Op2 = "*"
    /\ \E k \in {1, 3, 5} : Len(operands[k]) > 1 /\ operands[k][1] = "0"
    /\ outcome = Number(Add(ValA, Mul(ValB, ValC)))
    /\ outcome # Number(Mul(Add(ValA, ValB), ValC))

NoZeroDivisor ==
    /\ Op1 = "/" => ValB # Zero
    /\ Op2 = "/" => ValC # Zero

\* C6: two operators of the same tier are applied left to right:
\* "a op1 b op2 c" is (a op1 b) op2 c when no divisor is zero.
C6_SameTierLeftToRight ==
    (/\ Evaluated /\ operands # <<>>
     /\ (Op1 \in LowOps /\ Op2 \in LowOps) \/ (Op1 \in HighOps /\ Op2 \in HighOps)
     /\ NoZeroDivisor) =>
        outcome = Number(Bin(Op2, Bin(Op1, ValA, ValB), ValC))

\* "a/b*c" with a fractional quotient, where right-to-left would differ
C6_Witness ==
    /\ Evaluated /\ operands # <<>>
    /\ Op1 = "/" /\ Op2 = "*" /\ NoZeroDivisor
    /\ Div(ValA, ValB).d # 1
    /\ outcome = Number(Mul(Div(ValA, ValB), ValC))
    /\ ValC # Zero /\ outcome # Number(Div(ValA, Mul(ValB, ValC)))

\* some '/' of e is immediately followed by a digit run of value zero
DividesByZeroRun(e) ==
    \E i \in 1..Len(e) :
        /\ e[i] = "/"
        /\ \E j \in (i + 1)..Len(e) :
              /\ \A k \in (i + 1)..j : e[k] = "0"
              /\ (j = Len(e) \/ ~Digit(e[j + 1]))

\* C7: an expression with a '/' immediately followed by a zero-valued digit
\* run evaluates to null and is not valid, wherever the division sits.
C7_DivisionByZeroIsNull ==
    DividesByZeroRun(expr) =>
        /\ Evaluated => outcome = Null
        /\ Validated => valid = FALSE

AllInAlphabet(e) == \A i \in 1..Len(e) : e[i] \in Alphabet
EdgeOperator(e) == Len(e) > 0 /\ (Operator(e[1]) \/ Operator(e[Len(e)]))
AdjacentOperators(e) ==
    \E i \in 1..(Len(e) - 1) : Operator(e[i]) /\ Operator(e[i + 1])

\* a well-formed expression whose only flaw is a division by zero that is
\* not its first operator
C7_Witness ==
    /\ Validated /\ DividesByZeroRun(expr)
    /\ AllInAlphabet(expr) /\ ~EdgeOperator(expr) /\ ~AdjacentOperators(expr)
    /\ \E i, j \in 1..Len(expr) : i < j /\ Operator(expr[i]) /\ expr[j] = "/"
    /\ outcome = Null /\ valid = FALSE

\* C8: isValidExpression(s) iff s is non-empty, over the alphabet, without
\* an operator at either end, without adjacent operators, and
\* evaluateExpression(s) is not null.
C8_ValidIffSyntaxAndValue ==
    Validated =>
        (valid <=> /\ Len(expr) > 0
                   /\ AllInAlphabet(expr)
                   /\ ~EdgeOperator(expr)
                   /\ ~AdjacentOperators(expr)
                   /\ outcome # Null)

\* a full-length expression with two operators was found valid
C8_Witness ==
    /\ Validated /\ valid
    /\ Len(expr) = MaxExprLen
    /\ Cardinality({i \in 1..Len(expr) : Operator(expr[i])}) = 2
    /\ outcome # Null

SyntaxFails(e) ==
    \/ Len(e) = 0
    \/ ~AllInAlphabet(e)
    \/ EdgeOperator(e)
    \/ AdjacentOperators(e)

\* C9: every string failing a syntax check evaluates to null, hence
\* isValidExpression(s) = (evaluateExpression(s) # null) for every string.
C9_SyntaxChecksRedundant ==
    /\ (Evaluated /\ SyntaxFails(expr)) => outcome = Null
    /\ Validated => (valid <=> outcome # Null)

\* adjacent operators between digits: rejected by the evaluator alone
C9_Witness ==
    /\ Validated
    /\ AllInAlphabet(expr) /\ ~EdgeOperator(expr) /\ AdjacentOperators(expr)
    /\ outcome = Null /\ valid = FALSE

\* a '*' or '/' of e without a digit on one of its sides
MissingOperand(e) ==
    \E i \in 1..Len(e) :
        /\ e[i] \in HighOps
        /\ \/ i = 1 \/ i = Len(e)
           \/ ~Digit(e[i - 1]) \/ ~Digit(e[i + 1])

\* C10: evaluateExpression always ends with null or a number, and every
\* lexical, structural or arithmetic failure ends with null.
C10_FailuresAreNull ==
    Evaluated =>
        /\ outcome.type \in {"null", "number"}
        /\ (outcome.type = "null" => outcome = Null)
        /\ (\/ ~AllInAlphabet(expr)
            \/ Len(expr) = 0
            \/ MissingOperand(expr)
            \/ EdgeOperator(expr) \/ AdjacentOperators(expr)
            \/ DividesByZeroRun(expr)) => outcome = Null

\* a character outside the alphabet after a well-formed prefix
C10_Witness ==
    /\ pc = "evaluated"
    /\ Len(expr) > 2 /\ Digit(expr[1]) /\ Operator(expr[2])
    /\ ~AllInAlphabet(expr)
    /\ outcome = Null

(***************************************************************************)
(* Properties of normalizeExpression                                       *)
(***************************************************************************)
\* C11: normalizing a normalized valid expression changes nothing.
C11_NormalizeIdempotent ==
    (Normalized /\ valid) => normalizeExpression(normalized) = normalized

\* a valid expression with two leading zeros in one run was normalized
C11_Witness ==
    /\ Normalized /\ valid
    /\ \E i \in 1..(Len(expr) - 2) :
          /\ expr[i] = "0" /\ expr[i + 1] = "0" /\ Digit(expr[i + 2])
          /\ (i = 1 \/ Operator(expr[i - 1]))
    /\ normalized # expr
    /\ normalizeExpression(normalized) = normalized

\* position i of e starts a digit run
RunStart(e, i) == Digit(e[i]) /\ (i = 1 \/ ~Digit(e[i - 1]))
\* position i of e ends a digit run
RunLast(e, i) == Digit(e[i]) /\ (i = Len(e) \/ ~Digit(e[i + 1]))
\* position i holds a zero that only zeros of its own run precede and that
\* is not the last digit of the run
SuperfluousZero(e, i) ==
    /\ e[i] = "0"
    /\ ~RunLast(e, i)
    /\ \E s \in 1..i : RunStart(e, s) /\ \A k \in s..i : e[k] = "0"

\* e without the positions that hold a superfluous zero
RECURSIVE WithoutSuperfluousZeros(_, _)
WithoutSuperfluousZeros(e, i) ==
    IF i > Len(e) THEN <<>>
    ELSE IF SuperfluousZero(e, i) THEN WithoutSuperfluousZeros(e, i + 1)
    ELSE <<e[i]>> \o WithoutSuperfluousZeros(e, i + 1)

OperatorsOf(e) == SelectSeq(e, Operator)

\* C12: on a valid expression normalizeExpression removes exactly the
\* superfluous leading zeros: every digit run of the output is "0" or starts
\* with a non-zero digit, the operators are unchanged, and an expression
\* without superfluous zeros is left as is.
C12_StripsExactlyLeadingZeros ==
    (Normalized /\ valid) =>
        /\ normalized = WithoutSuperfluousZeros(expr, 1)
        /\ \A i \in 1..Len(normalized) :
              (RunStart(normalized, i) /\ normalized[i] = "0") => RunLast(normalized, i)
        /\ OperatorsOf(normalized) = OperatorsOf(expr)
        /\ (\A i \in 1..Len(expr) : ~SuperfluousZero(expr, i)) => normalized = expr

\* an all-zero run collapsed to "0" next to a run with an inner zero kept
C12_Witness ==
    /\ Normalized /\ valid
    /\ \E i \in 1..(Len(expr) - 1) :
          /\ RunStart(expr, i) /\ expr[i] = "0" /\ expr[i + 1] = "0"
          /\ RunLast(expr, i + 1)
    /\ \E i \in 2..Len(expr) : expr[i] = "0" /\ Digit(expr[i - 1]) /\ expr[i - 1] # "0"
    /\ Len(normalized) = Len(expr) - 1

\* C13: for every string over the alphabet the normalized string evaluates
\* to the same result, null or number, as the string itself.
C13_NormalizePreservesValue ==
    (Normalized /\ AllInAlphabet(expr)) =>
        evaluateExpression(normalized) = outcome

\* a number was obtained from an expression that normalization changed
C13_Witness ==
    /\ Normalized /\ AllInAlphabet(expr)
    /\ normalized # expr
    /\ outcome # Null
    /\ outcome.value # Zero
    /\ evaluateExpression(normalized) = outcome

(***************************************************************************)
(* Game specification: the reducer under any sequence of actions.          *)
(***************************************************************************)
\* characters the player types
TypedChars == {"1", "+"}
\* days of the year the game is played on
PlayDays == {0}
\* puzzles a caller passes to useGame or reset: a six-character one with a
\* second expression of the same value, and one with an eight-character
\* solution
CallerPuzzles ==
    { Puzzle(122, <<"1", "1", "1", "+", "1", "1">>),
      Puzzle(111111, <<"1", "1", "1", "1", "1", "1", "*", "1">>) }
\* positions SET_CURSOR is dispatched with
CursorPositions == (0 - 1)..EQUATION_LENGTH

ExprIdle ==
    /\ expr = <<>> /\ operands = <<>> /\ outcome = Null
    /\ valid = FALSE /\ normalized = <<>>
ScorerIdle == guess = <<>> /\ solution = <<>> /\ tiles = <<>>

\* useReducer(gameReducer, initialPuzzle ?? getDailyPuzzle(), createInitialState)
Init ==
    /\ \E puzzle \in CallerPuzzles \cup {getDailyPuzzle(d) : d \in PlayDays} :
          game = createInitialState(puzzle)
    /\ lastSubmit = NoSubmit
    /\ OthersIdle
    /\ pc = "game"
    /\ ExprIdle /\ ScorerIdle

AddChar ==
    /\ pc = "game"
    /\ \E char \in TypedChars : game' = ReduceAddChar(game, char)
    /\ lastSubmit' = NoSubmit
    /\ UNCHANGED <<scorerVars, exprVars, pc, otherVars>>

Backspace ==
    /\ pc = "game"
    /\ game' = ReduceDelete(game)
    /\ lastSubmit' = NoSubmit
    /\ UNCHANGED <<scorerVars, exprVars, pc, otherVars>>

MoveLeft ==
    /\ pc = "game"
    /\ game' = ReduceMoveLeft(game)
    /\ lastSubmit' = NoSubmit
    /\ UNCHANGED <<scorerVars, exprVars, pc, otherVars>>

MoveRight ==
    /\ pc = "game"
    /\ game' = ReduceMoveRight(game)
    /\ lastSubmit' = NoSubmit
    /\ UNCHANGED <<scorerVars, exprVars, pc, otherVars>>

SetCursor ==
    /\ pc = "game"
    /\ \E position \in CursorPositions : game' = ReduceSetCursor(game, position)
    /\ lastSubmit' = NoSubmit
    /\ UNCHANGED <<scorerVars, exprVars, pc, otherVars>>

Submit ==
    /\ pc = "game"
    /\ game' = ReduceSubmit(game)
    /\ lastSubmit' = SubmitRecord(game)
    /\ UNCHANGED <<scorerVars, exprVars, pc, otherVars>>

\* RESET with a puzzle, or without one: createInitialState(getDailyPuzzle())
Reset ==
    /\ pc = "game"
    /\ \E puzzle \in CallerPuzzles \cup {getDailyPuzzle(d) : d \in PlayDays} :
          game' = createInitialState(puzzle)
    /\ lastSubmit' = NoSubmit
    /\ UNCHANGED <<scorerVars, exprVars, pc, otherVars>>

\* USE_HINT with a position of the solution and the character it holds
UseHint ==
    /\ pc = "game"
    /\ \E position \in 0..(Len(game.solution) - 1) :
          game' = ReduceUseHint(game, position, game.solution[position + 1])
    /\ lastSubmit' = NoSubmit
    /\ UNCHANGED <<scorerVars, exprVars, pc, otherVars>>

Next ==
    \/ AddChar \/ Backspace \/ MoveLeft \/ MoveRight \/ SetCursor
    \/ Submit \/ Reset \/ UseHint

Spec == Init /\ [][Next]_vars

(***************************************************************************)
(* Curated-puzzle specification: a fresh game on any curated puzzle, the   *)
(* player typing the solution or a zero at each position.                  *)
(***************************************************************************)
InitPuzzle ==
    /\ \E dayOfYear \in 0..(Len(PUZZLES) - 1) :
          game = createInitialState(getDailyPuzzle(dayOfYear))
    /\ lastSubmit = NoSubmit
    /\ OthersIdle
    /\ pc = "game"
    /\ ExprIdle /\ ScorerIdle

TypeSolutionChar ==
    /\ pc = "game"
    /\ \E char \in {CharAt(game.solution, game.cursorPosition + 1), "0"} :
          game' = ReduceAddChar(game, char)
    /\ lastSubmit' = NoSubmit
    /\ UNCHANGED <<scorerVars, exprVars, pc, otherVars>>

NextPuzzle == TypeSolutionChar \/ Submit

SpecPuzzle == InitPuzzle /\ [][NextPuzzle]_vars

(***************************************************************************)
(* Properties of the reducer and of the scorer's callers                   *)
(***************************************************************************)
\* the characters of a recorded row
RowString(row) == [i \in 1..Len(row) |-> row[i].char]

Accepted == pc = "game" /\ lastSubmit.accepted

\* C14: every recorded row has exactly `length` characters, is a valid
\* expression and evaluates to the target, and checkGuess is called only
\* for such an input.
C14_RowsAreAcceptedGuesses ==
    pc = "game" =>
        /\ \A r \in 1..Len(game.guesses) :
              LET row == RowString(game.guesses[r])
              IN  /\ Len(row) = game.length
                  /\ isValidExpression(row)
                  /\ evaluateExpression(row) = Number(IntNum(game.target))
        /\ lastSubmit.accepted =>
              /\ Len(game.guesses) > 0
              /\ RowString(game.guesses[Len(game.guesses)]) = lastSubmit.input

\* two rows have been recorded and the game goes on
C14_Witness ==
    /\ pc = "game"
    /\ Len(game.guesses) = 2
    /\ game.state = "playing"
    /\ lastSubmit.accepted

C16_ScoredWithEqualLengths ==
    Accepted => Len(lastSubmit.input) = Len(lastSubmit.solution)

\* C17: checkGuess returns a status sequence only for inputs of equal
\* length; a length mismatch is reported as an error instead.
C17_MismatchIsAnError ==
    Scored => EqualLength

\* C18: every curated solution has 6 characters, is valid and evaluates to
\* its target, and submitting it is accepted and wins.
C18_CuratedPuzzlesWinnable ==
    pc = "game" =>
        /\ Len(game.solution) = 6
        /\ isValidExpression(game.solution)
        /\ evaluateExpression(game.solution) = Number(IntNum(game.target))
        /\ (lastSubmit.happened /\ lastSubmit.input = game.solution) =>
              /\ lastSubmit.accepted
              /\ game.state = "won"

\* the solution with a division was typed into a fresh game and won
C18_Witness ==
    /\ pc = "game"
    /\ lastSubmit.happened /\ lastSubmit.input = game.solution
    /\ "/" \in Range(game.solution)
    /\ game.state = "won"
    /\ Len(game.guesses) = 1

(***************************************************************************)
(* Server specification: a server process, either the mathler hint server  *)
(* or a createBipsServer app with the test configuration and any handler,  *)
(* answering requests while the UTC date and the local day advance.        *)
(***************************************************************************)
\* values of the x-wallet-address header; Undefined when the header is absent
WalletHeaders == {Undefined, "", "0xA"}
\* values of the :itemId route parameter
RequestedItems == {"hint", "extra-life", "does-not-exist", ""}
\* the apps a server process can be
ServerApps == {"mathler", "test", "middleware"}
\* values of the X-Payment header; Undefined when the header is absent
PaymentHeaders == {Undefined, "", "some-payment-token"}
\* what the verification of a payment may do once it calls the facilitator
VerificationOutcomes == {"true", "false", "throws"}
\* UTC dates and local days of the year the server lives through
ServerDates == 0..1
LocalDays == 14..15
\* what the handler of the test app may do
HandlerOutcomes ==
    { PurchaseResult(success, data, error) :
        success \in BOOLEAN, data \in {Hint(3, "*"), NoData},
        error \in {"Out of stock", Undefined} } \cup {Thrown}

\* positions served so far under a session key, in the order served
LogOf(log, key) == IF key \in DOMAIN log THEN log[key] ELSE <<>>

InitServer ==
    /\ hintSessions = <<>>
    /\ served = <<>>
    /\ today = 0
    /\ serverDay = 14
    /\ lastPurchase = NoPurchase
    /\ MiddlewareIdle
    /\ ClientIdle
    /\ game = NoGame
    /\ lastSubmit = NoSubmit
    /\ pc \in ServerApps
    /\ ExprIdle /\ ScorerIdle

\* POST /api/bips/purchase/:itemId on the mathler server
MathlerPurchase ==
    /\ pc = "mathler"
    /\ \E itemId \in RequestedItems, header \in WalletHeaders :
          LET handled == mathlerOnPurchase(itemId, header, hintSessions,
                                           today, serverDay)
              out == purchaseEndpoint(bipsConfig, itemId, handled.result)
              key == getSessionKey(walletAddressOf(header), today)
          IN /\ hintSessions' = IF out.called THEN handled.sessions
                                ELSE hintSessions
             /\ served' = IF out.response.status = 200
                          THEN IF key \in DOMAIN served
                               THEN [served EXCEPT
                                       ![key] = Append(@, out.response.data.position)]
                               ELSE served @@
                                      (key :> <<out.response.data.position>>)
                          ELSE served
             /\ lastPurchase' =
                  [happened |-> TRUE, app |-> "mathler", itemId |-> itemId,
                   header |-> header, utcDate |-> today, localDay |-> serverDay,
                   called |-> out.called, result |-> handled.result,
                   response |-> out.response, servedBefore |-> served]
    /\ UNCHANGED <<scorerVars, exprVars, pc, gameVars, clientVars, today, serverDay,
                   middlewareVars>>

\* POST /api/bips/purchase/:itemId on an app with the test configuration
TestPurchase ==
    /\ pc = "test"
    /\ \E itemId \in RequestedItems, result \in HandlerOutcomes :
          LET out == purchaseEndpoint(testConfig, itemId, result)
          IN lastPurchase' =
                  [happened |-> TRUE, app |-> "test", itemId |-> itemId,
                   header |-> Undefined, utcDate |-> today,
                   localDay |-> serverDay, called |-> out.called,
                   result |-> result, response |-> out.response,
                   servedBefore |-> served]
    /\ UNCHANGED <<scorerVars, exprVars, pc, gameVars, clientVars, hintSessions, served,
                   today, serverDay, middlewareVars>>

\* new Date().toISOString().split('T')[0] changes
UtcMidnight ==
    /\ pc \in ServerApps
    /\ today + 1 \in ServerDates
    /\ today' = today + 1
    /\ UNCHANGED <<scorerVars, exprVars, pc, gameVars, clientVars, hintSessions, served,
                   serverDay, lastPurchase, middlewareVars>>

\* the local day of the year changes
LocalMidnight ==
    /\ pc \in ServerApps
    /\ serverDay + 1 \in LocalDays
    /\ serverDay' = serverDay + 1
    /\ UNCHANGED <<scorerVars, exprVars, pc, gameVars, clientVars, hintSessions, served,
                   today, lastPurchase, middlewareVars>>

\* POST /api/purchase/:itemId on the app of createTestApp
MiddlewareRequest ==
    /\ pc = "middleware"
    /\ \E itemId \in RequestedItems, paymentHeader \in PaymentHeaders,
          verification \in VerificationOutcomes :
          lastChecked' =
             [happened |-> TRUE, itemId |-> itemId,
              paymentHeader |-> paymentHeader, verification |-> verification,
              handled |-> bipsMiddleware(testConfig, itemId, paymentHeader,
                                         verification)]
    /\ UNCHANGED <<scorerVars, exprVars, pc, gameVars, clientVars, serverVars>>

NextServer ==
    \/ MathlerPurchase \/ TestPurchase \/ MiddlewareRequest
    \/ UtcMidnight \/ LocalMidnight

SpecServer == InitServer /\ [][NextServer]_vars

(***************************************************************************)
(* Properties of the hint server and of the purchase endpoint              *)
(***************************************************************************)
Purchased == pc \in ServerApps /\ lastPurchase.happened
HintPurchased ==
    Purchased /\ lastPurchase.app = "mathler" /\ lastPurchase.itemId = "hint"
\* the session key of the last request
PurchaseKey ==
    getSessionKey(walletAddressOf(lastPurchase.header), lastPurchase.utcDate)
ConfigOf(app) == IF app = "mathler" THEN bipsConfig ELSE testConfig
KnownItem(config, itemId) ==
    \E i \in 1..Len(config.items) : config.items[i].id = itemId

\* C19: under one session key the successful hint purchases return the
\* positions 0, 1, 2, ... in this order, each once, with the character of
\* the day's solution at that position; when as many hints as the solution
\* has characters were served the purchase fails with 'All positions already
\* revealed'; and a purchase leaves the hints served under every other
\* session key as they were.
C19_HintsRevealedOnce ==
    /\ pc = "mathler" =>
          \A key \in DOMAIN served : \A j \in 1..Len(served[key]) :
             served[key][j] = j - 1
    /\ HintPurchased =>
          LET before == LogOf(lastPurchase.servedBefore, PurchaseKey)
              sol == serverGetDailyPuzzle(lastPurchase.localDay).solution
              response == lastPurchase.response
          IN /\ IF Len(before) < Len(sol)
                THEN /\ response.status = 200
                     /\ response.success
                     /\ response.data = Hint(Len(before), sol[Len(before) + 1])
                     /\ LogOf(served, PurchaseKey) = Append(before, Len(before))
                ELSE /\ response.status = 400
                     /\ ~response.success
                     /\ response.error = "All positions already revealed"
                     /\ LogOf(served, PurchaseKey) = before
             /\ \A other \in DOMAIN served \cup DOMAIN lastPurchase.servedBefore :
                   other # PurchaseKey =>
                      LogOf(served, other) = LogOf(lastPurchase.servedBefore, other)

\* a wallet is refused a seventh hint while another wallet, on the same
\* date, has been served some but not all hints
C19_Witness ==
    /\ HintPurchased
    /\ lastPurchase.response.error = "All positions already revealed"
    /\ Len(LogOf(served, PurchaseKey)) = 6
    /\ \E other \in DOMAIN served :
          /\ other # PurchaseKey
          /\ other[2] = PurchaseKey[2]
          /\ Len(served[other]) \in 1..5

\* C20: the purchase endpoint calls onPurchase exactly for the item ids of
\* the configuration; an unknown item is answered 404, and for a known item
\* a resolved success gives 200 with the handler's data, a resolved failure
\* 400 with the handler's error, and a throwing handler 500.
C20_EndpointMapsOutcome ==
    (Purchased /\ lastPurchase.itemId # "") =>
       LET known == KnownItem(ConfigOf(lastPurchase.app), lastPurchase.itemId)
           result == lastPurchase.result
           response == lastPurchase.response
       IN /\ lastPurchase.called <=> known
          /\ ~known => response.status = 404
          /\ (known /\ result.throws) => response.status = 500
          /\ (known /\ ~result.throws /\ result.success) =>
                /\ response.status = 200
                /\ response.success
                /\ response.data = result.data
          /\ (known /\ ~result.throws /\ ~result.success) =>
                /\ response.status = 400
                /\ ~response.success
                /\ response.error = result.error

\* a handler that fails with an error for a known item of the test app
C20_Witness ==
    /\ Purchased
    /\ lastPurchase.app = "test"
    /\ lastPurchase.itemId = "extra-life"
    /\ lastPurchase.called
    /\ lastPurchase.result = PurchaseResult(FALSE, NoData, "Out of stock")
    /\ lastPurchase.response.status = 400
    /\ lastPurchase.response.error = "Out of stock"

Checked == pc = "middleware" /\ lastChecked.happened

\* C21: bipsMiddleware calls next, with req.bipsPurchase set and no response
\* of its own, exactly when the item exists, the X-Payment header is present
\* and the verification resolved to true; otherwise it never calls next and
\* sends one response: 400 for a missing itemId, else 404 for an unknown
\* item, else 402 'Payment required' without the header, else 402 'Invalid
\* payment' when the verification resolved to false, and 500 only when the
\* verification threw.
C21_MiddlewareGatesNext ==
    Checked =>
       LET itemId == lastChecked.itemId
           known == KnownItem(testConfig, itemId)
           hasHeader == lastChecked.paymentHeader \notin {Undefined, ""}
           verification == lastChecked.verification
           handled == lastChecked.handled
           sent == handled.responses[1]
       IN /\ handled.next <=>
                (itemId # "" /\ known /\ hasHeader /\ verification = "true")
          /\ handled.next =>
                /\ handled.responses = <<>>
                /\ handled.bipsPurchase.itemId = itemId
                /\ handled.bipsPurchase.price = findItem(testConfig, itemId).price
          /\ ~handled.next =>
                /\ Len(handled.responses) = 1
                /\ handled.bipsPurchase = NoBipsPurchase
                /\ IF itemId = "" THEN sent.status = 400
                   ELSE IF ~known THEN sent.status = 404
                   ELSE IF ~hasHeader
                   THEN sent.status = 402 /\ sent.error = "Payment required"
                   ELSE IF verification = "false"
                   THEN sent.status = 402 /\ sent.error = "Invalid payment"
                   ELSE sent.status = 500 /\ verification = "throws"

\* a paid request for a known item whose verification resolves to false,
\* as the placeholder verifyPayment does
C21_Witness ==
    /\ Checked
    /\ lastChecked.itemId = "hint"
    /\ lastChecked.paymentHeader = "some-payment-token"
    /\ lastChecked.verification = verifyPayment
    /\ ~lastChecked.handled.next
    /\ lastChecked.handled.responses[1].status = 402
    /\ lastChecked.handled.responses[1].error = "Invalid payment"

(***************************************************************************)
(* Hook specification: a mounted useBipsPurchase whose purchase function   *)
(* is called at any time, also while earlier calls are pending.            *)
(***************************************************************************)
\* the calls of purchase made during the life of the component
PurchaseCalls == {1, 2}
\* item ids purchase is called with; the provider's config has 'hint'
HookItems == {"hint", "does-not-exist"}
\* error bodies of a response that is not ok; Undefined when the body has no
\* error or is not JSON
ErrorBodies == {"All positions already revealed", Undefined}
\* messages of errors thrown inside the try block
ThrownMessages == {"Network request failed", "Unknown error"}

InitHook ==
    /\ isLoading = FALSE
    /\ purchaseError = NoError
    /\ calls = [p \in PurchaseCalls |-> NoCall]
    /\ ComponentIdle /\ StatsIdle
    /\ ServerIdle /\ MiddlewareIdle
    /\ game = NoGame
    /\ lastSubmit = NoSubmit
    /\ pc = "hook"
    /\ ExprIdle /\ ScorerIdle

HookUnchanged == UNCHANGED <<scorerVars, exprVars, pc, gameVars, serverVars,
                             middlewareVars, componentVars, statsVars>>

\* the call moves on to its next await
Await(p, stage) ==
    /\ calls' = [calls EXCEPT ![p].stage = stage]
    /\ UNCHANGED <<isLoading, purchaseError>>

\* the call sets the error, clears isLoading and returns
Settle(p, code, message) ==
    /\ calls' = [calls EXCEPT ![p].stage = "settled", ![p].code = code]
    /\ purchaseError' = message
    /\ isLoading' = FALSE

\* purchase(itemId) up to its first await or return
StartPurchase ==
    /\ pc = "hook"
    /\ \E p \in PurchaseCalls, itemId \in HookItems, primaryWallet \in BOOLEAN :
          /\ calls[p].stage = "idle"
          /\ IF findItem(bipsConfig, itemId) = NoItem
             THEN /\ calls' = [calls EXCEPT
                                 ![p] = Call("settled", itemId, "ITEM_NOT_FOUND")]
                  /\ UNCHANGED <<isLoading, purchaseError>>
             ELSE IF ~primaryWallet
             THEN /\ calls' = [calls EXCEPT
                                 ![p] = Call("settled", itemId,
                                             "WALLET_NOT_CONNECTED")]
                  /\ purchaseError' = "Wallet not connected"
                  /\ isLoading' = FALSE
             ELSE /\ calls' = [calls EXCEPT
                                 ![p] = Call("getNetwork", itemId, "")]
                  /\ purchaseError' = NoError
                  /\ isLoading' = TRUE
    /\ HookUnchanged

\* await primaryWallet.getNetwork() returns or throws
GetNetworkDone ==
    /\ pc = "hook"
    /\ \E p \in PurchaseCalls :
          /\ calls[p].stage = "getNetwork"
          /\ \/ Await(p, "createDynamicSigner")
             \/ Await(p, "switchNetwork")
             \/ \E message \in ThrownMessages : Settle(p, "PAYMENT_FAILED", message)
    /\ HookUnchanged

\* await primaryWallet.switchNetwork(requiredChainId) returns or throws
SwitchNetworkDone ==
    /\ pc = "hook"
    /\ \E p \in PurchaseCalls :
          /\ calls[p].stage = "switchNetwork"
          /\ \/ Await(p, "createDynamicSigner")
             \/ Settle(p, "NETWORK_ERROR", "Please switch to base-sepolia network")
    /\ HookUnchanged

\* await createDynamicSigner(primaryWallet) returns or throws
SignerDone ==
    /\ pc = "hook"
    /\ \E p \in PurchaseCalls :
          /\ calls[p].stage = "createDynamicSigner"
          /\ \/ Await(p, "fetch")
             \/ \E message \in ThrownMessages : Settle(p, "PAYMENT_FAILED", message)
    /\ HookUnchanged

\* await fetchWithPayment(url, ...) returns a response or throws
FetchDone ==
    /\ pc = "hook"
    /\ \E p \in PurchaseCalls :
          /\ calls[p].stage = "fetch"
          /\ \/ Await(p, "dataJson")
             \/ Await(p, "errorJson")
             \/ \E message \in ThrownMessages : Settle(p, "PAYMENT_FAILED", message)
    /\ HookUnchanged

\* await response.json().catch(() => ({})) of a response that is not ok
ErrorJsonDone ==
    /\ pc = "hook"
    /\ \E p \in PurchaseCalls, body \in ErrorBodies :
          /\ calls[p].stage = "errorJson"
          /\ Settle(p, "PAYMENT_FAILED",
                    IF body = Undefined THEN "Purchase failed" ELSE body)
    /\ HookUnchanged

\* await response.json() of an ok response returns or throws
DataJsonDone ==
    /\ pc = "hook"
    /\ \E p \in PurchaseCalls :
          /\ calls[p].stage = "dataJson"
          /\ \/ /\ calls' = [calls EXCEPT ![p].stage = "settled",
                                          ![p].code = "completed"]
                /\ isLoading' = FALSE
                /\ UNCHANGED purchaseError
             \/ \E message \in ThrownMessages : Settle(p, "PAYMENT_FAILED", message)
    /\ HookUnchanged

NextHook ==
    \/ StartPurchase \/ GetNetworkDone \/ SwitchNetworkDone \/ SignerDone
    \/ FetchDone \/ ErrorJsonDone \/ DataJsonDone

SpecHook == InitHook /\ [][NextHook]_vars

(***************************************************************************)
(* Properties of the purchase hook                                         *)
(***************************************************************************)
InFlight == {p \in DOMAIN calls : calls[p].stage \in PendingStages}

\* C22: isLoading is true exactly while some purchase call of a known item
\* has started and its promise has not settled.
C22_LoadingIffInFlight ==
    pc = "hook" => (isLoading <=> InFlight # {})

(***************************************************************************)
(* Properties of the reducer's game states                                 *)
(***************************************************************************)
RowAllCorrect(row) == \A i \in 1..Len(row) : row[i].status = "correct"
LastRow == game.guesses[Len(game.guesses)]
\* the puzzles useGame and RESET are given
GamePuzzles == CallerPuzzles \cup {getDailyPuzzle(d) : d \in PlayDays}

\* C23: never more than maxGuesses rows; the game is 'lost' exactly when
\* maxGuesses rows are recorded and the last is not all 'correct'; a game
\* that is 'playing' has fewer than maxGuesses rows.
C23_LostIffRowsExhausted ==
    pc = "game" =>
       /\ Len(game.guesses) <= game.maxGuesses
       /\ (game.state = "lost") <=>
             (Len(game.guesses) = game.maxGuesses /\ ~RowAllCorrect(LastRow))
       /\ game.state = "playing" => Len(game.guesses) < game.maxGuesses

\* the sixth accepted guess was not the solution
C23_Witness ==
    /\ pc = "game"
    /\ game.state = "lost"
    /\ Len(game.guesses) = MAX_GUESSES
    /\ lastSubmit.accepted

\* C24: in a game that is 'won' or 'lost' every action but RESET returns the
\* state with only the error cleared, and a step that leaves such a game
\* goes to the initial state of a puzzle, as RESET does.
C24_FinishedIsAbsorbing ==
    /\ [](( pc = "game" /\ game.state # "playing") =>
            /\ \A char \in TypedChars : ReduceAddChar(game, char) = clearedState(game)
            /\ ReduceDelete(game) = clearedState(game)
            /\ ReduceMoveLeft(game) = clearedState(game)
            /\ ReduceMoveRight(game) = clearedState(game)
            /\ \A position \in CursorPositions :
                  ReduceSetCursor(game, position) = clearedState(game)
            /\ ReduceSubmit(game) = clearedState(game)
            /\ \A position \in 0..(Len(game.solution) - 1) :
                  ReduceUseHint(game, position, game.solution[position + 1])
                     = clearedState(game))
    /\ [][(pc = "game" /\ game.state # "playing") =>
            \/ game' = clearedState(game)
            \/ \E puzzle \in GamePuzzles : game' = createInitialState(puzzle)]_vars

\* a lost game after a further action, its error cleared
C24_Witness ==
    /\ pc = "game"
    /\ game.state = "lost"
    /\ lastSubmit = NoSubmit
    /\ game.error = NoError
    /\ Len(game.guesses) = MAX_GUESSES

\* C25: the cursor is always a position of the row, and it is 0 after an
\* accepted SUBMIT and after RESET.
C25_CursorStaysInRow ==
    /\ [](pc = "game" =>
            /\ 0 <= game.cursorPosition
            /\ game.cursorPosition <= game.length - 1
            /\ lastSubmit.accepted => game.cursorPosition = 0)
    /\ [][(pc = "game" /\ Reset) => game'.cursorPosition = 0]_vars

\* the cursor stands on the last position of the row
C25_Witness ==
    /\ pc = "game"
    /\ game.cursorPosition = game.length - 1
    /\ Len(game.currentInput) = game.length
    /\ Len(game.guesses) > 0

\* the error of a rejected input: length, then validity, then value
RejectionOf(state) ==
    IF Len(state.currentInput) # state.length THEN "Not enough characters"
    ELSE IF ~isValidExpression(state.currentInput) THEN "Invalid expression"
    ELSE "Expression must equal " \o ToString(state.target)

\* C26: a SUBMIT in a running game is rejected exactly when the input has
\* not `length` characters, is not a valid expression or does not evaluate
\* to the target; a rejected SUBMIT changes only the error, which names the
\* first of these checks that failed.
C26_RejectedSubmitOnlySetsError ==
    [][(pc = "game" /\ lastSubmit'.happened /\ lastSubmit' # lastSubmit) =>
          /\ lastSubmit'.accepted <=>
                /\ Len(game.currentInput) = game.length
                /\ isValidExpression(game.currentInput)
                /\ evaluateExpression(game.currentInput)
                      = Number(IntNum(game.target))
          /\ ~lastSubmit'.accepted =>
                game' = [game EXCEPT !.error = RejectionOf(game)]]_vars

\* a valid six-character input of another value was rejected
C26_Witness ==
    /\ pc = "game"
    /\ lastSubmit.happened
    /\ ~lastSubmit.accepted
    /\ Len(lastSubmit.input) = game.length
    /\ game.currentInput = lastSubmit.input
    /\ game.error = "Expression must equal 122"
    /\ game.cursorPosition > 0

(***************************************************************************)
(* Component specification: the Game component on the puzzle of the day,   *)
(* driven by key presses, the Play Again button, the player logging in     *)
(* and out, and re-renders caused by new stats.                            *)
(***************************************************************************)
MaxRounds == 2
\* an accepted guess of the day's value that is not the solution
OtherGuess == <<"5", "0", "-", "1", "*", "8">>
\* the keys pressed at a cursor position
ComponentKeys(cursorPosition) ==
    {getDailyPuzzle(0).solution[cursorPosition + 1], OtherGuess[cursorPosition + 1]}

InitComponent ==
    /\ game = createInitialState(getDailyPuzzle(0))
    /\ lastSubmit = NoSubmit
    /\ hasRecordedResult = FALSE
    /\ isAuthenticated \in BOOLEAN
    /\ resultCalls = <<>>
    /\ rounds = 0
    /\ HookIdle /\ StatsIdle
    /\ ServerIdle /\ MiddlewareIdle
    /\ pc = "component"
    /\ ExprIdle /\ ScorerIdle

\* the commits after an event that leaves the game in newGame and the
\* player authenticated or not; recordChanged: recordGameResult is a new
\* function
Commit(newGame, authenticated, recordChanged) ==
    LET recordRuns == \/ newGame.state # game.state
                      \/ Len(newGame.guesses) # Len(game.guesses)
                      \/ authenticated # isAuthenticated
                      \/ recordChanged
        resetRuns == newGame.state # game.state
        effects == RunEffects(newGame, hasRecordedResult, authenticated,
                              recordRuns, resetRuns)
        finishes == game.state = "playing" /\ newGame.state # "playing"
    IN /\ game' = newGame
       /\ isAuthenticated' = authenticated
       /\ hasRecordedResult' = effects.flag
       /\ resultCalls' = (IF finishes THEN <<>> ELSE resultCalls) \o effects.calls
       /\ UNCHANGED <<scorerVars, exprVars, pc, serverVars, middlewareVars,
                      hookVars, statsVars>>

KeyChar ==
    /\ pc = "component"
    /\ \E char \in ComponentKeys(game.cursorPosition) :
          Commit(ReduceAddChar(game, char), isAuthenticated, FALSE)
    /\ lastSubmit' = NoSubmit
    /\ UNCHANGED rounds

KeyEnter ==
    /\ pc = "component"
    /\ Commit(ReduceSubmit(game), isAuthenticated, FALSE)
    /\ lastSubmit' = SubmitRecord(game)
    /\ UNCHANGED rounds

\* Backspace and Delete
KeyBackspace ==
    /\ pc = "component"
    /\ Commit(ReduceDelete(game), isAuthenticated, FALSE)
    /\ lastSubmit' = NoSubmit
    /\ UNCHANGED rounds

KeyArrowLeft ==
    /\ pc = "component"
    /\ Commit(ReduceMoveLeft(game), isAuthenticated, FALSE)
    /\ lastSubmit' = NoSubmit
    /\ UNCHANGED rounds

KeyArrowRight ==
    /\ pc = "component"
    /\ Commit(ReduceMoveRight(game), isAuthenticated, FALSE)
    /\ lastSubmit' = NoSubmit
    /\ UNCHANGED rounds

\* onClick={() => reset()} of the end-of-game panel
PlayAgain ==
    /\ pc = "component"
    /\ game.state # "playing"
    /\ rounds < MaxRounds
    /\ Commit(createInitialState(getDailyPuzzle(0)), isAuthenticated, FALSE)
    /\ lastSubmit' = NoSubmit
    /\ rounds' = rounds + 1

\* the player logs in or out
AuthChange ==
    /\ pc = "component"
    /\ Commit(game, ~isAuthenticated, TRUE)
    /\ UNCHANGED <<lastSubmit, rounds>>

\* user or stats changed: recordGameResult is a new function
StatsChange ==
    /\ pc = "component"
    /\ Commit(game, isAuthenticated, TRUE)
    /\ UNCHANGED <<lastSubmit, rounds>>

NextComponent ==
    \/ KeyChar \/ KeyEnter \/ KeyBackspace \/ KeyArrowLeft \/ KeyArrowRight
    \/ PlayAgain \/ AuthChange \/ StatsChange

SpecComponent == InitComponent /\ [][NextComponent]_vars

(***************************************************************************)
(* Properties of the Game component                                        *)
(***************************************************************************)
\* C27: recordGameResult is called at most once between the end of a game
\* and the end of the next one; while a finished game is shown to an
\* authenticated player it has been called exactly once, with the result
\* and the number of rows of that game, whatever re-renders followed, and
\* also for a game played after a RESET.
C27_FinishedGameRecordedOnce ==
    pc = "component" =>
       /\ Len(resultCalls) <= 1
       /\ (game.state # "playing" /\ isAuthenticated) =>
             resultCalls = <<ResultCall(game.state = "won", Len(game.guesses))>>
       /\ game.state # "playing" =>
             (hasRecordedResult <=> Len(resultCalls) = 1)

\* the second game, lost after a RESET, is recorded once although the
\* stats changed afterwards
C27_Witness ==
    /\ pc = "component"
    /\ rounds = 1
    /\ game.state = "lost"
    /\ isAuthenticated
    /\ lastSubmit = NoSubmit
    /\ resultCalls = <<ResultCall(FALSE, MAX_GUESSES)>>

(***************************************************************************)
(* Stats specifications.  SpecStats: an authenticated user whose           *)
(* recordHintPurchase and recordGameResult calls may start while earlier   *)
(* updateUser calls are in flight or not yet read back.  SpecStreak: the   *)
(* calls of recordGameResult made one after the other, each on the stats   *)
(* the previous one produced, over several days.                           *)
(***************************************************************************)
MaxRecords == 3
MaxGames == 4
MaxDay == 3
\* the numbers of rows recordGameResult is called with
GuessCounts == {1, 6}

StatsUnchanged == UNCHANGED <<scorerVars, exprVars, pc, gameVars, serverVars,
                              middlewareVars, hookVars, componentVars>>

InitStats ==
    /\ StatsIdle
    /\ HookIdle /\ ComponentIdle
    /\ ServerIdle /\ MiddlewareIdle
    /\ game = NoGame
    /\ lastSubmit = NoSubmit
    /\ pc = "stats"
    /\ ExprIdle /\ ScorerIdle

\* recordHintPurchase() up to its await
CallRecordHintPurchase ==
    /\ pc = "stats"
    /\ started < MaxRecords
    /\ started' = started + 1
    /\ pendingUpdates' = Append(pendingUpdates,
                                Update("hint", recordHintPurchase(userStats)))
    /\ UNCHANGED <<userStats, stored, hintsRecorded, gamesRecorded, clientDay,
                   lastResult>>
    /\ StatsUnchanged

\* recordGameResult(won, guesses) up to its await
CallRecordGameResult ==
    /\ pc = "stats"
    /\ started < MaxRecords
    /\ started' = started + 1
    /\ \E won \in BOOLEAN, guesses \in GuessCounts :
          pendingUpdates' =
             Append(pendingUpdates,
                    Update("result",
                           recordGameResult(userStats, won, guesses, clientDay)))
    /\ UNCHANGED <<userStats, stored, hintsRecorded, gamesRecorded, clientDay,
                   lastResult>>
    /\ StatsUnchanged

\* an updateUser call resolves: its metadata is stored
UpdateUserResolves ==
    /\ pc = "stats"
    /\ \E i \in 1..Len(pendingUpdates) :
          /\ stored' = pendingUpdates[i].newStats
          /\ hintsRecorded' = hintsRecorded
                                + (IF pendingUpdates[i].kind = "hint" THEN 1 ELSE 0)
          /\ gamesRecorded' = gamesRecorded
                                + (IF pendingUpdates[i].kind = "result" THEN 1 ELSE 0)
          /\ pendingUpdates' = Without(pendingUpdates, i)
    /\ UNCHANGED <<userStats, started, clientDay, lastResult>>
    /\ StatsUnchanged

\* an updateUser call rejects: the catch block logs the error
UpdateUserRejects ==
    /\ pc = "stats"
    /\ \E i \in 1..Len(pendingUpdates) :
          pendingUpdates' = Without(pendingUpdates, i)
    /\ UNCHANGED <<userStats, stored, hintsRecorded, gamesRecorded, started,
                   clientDay, lastResult>>
    /\ StatsUnchanged

\* a render parses the stored metadata into stats
ReadBack ==
    /\ pc = "stats"
    /\ userStats # stored
    /\ userStats' = stored
    /\ UNCHANGED <<stored, pendingUpdates, hintsRecorded, gamesRecorded, started,
                   clientDay, lastResult>>
    /\ StatsUnchanged

NextStats ==
    \/ CallRecordHintPurchase \/ CallRecordGameResult
    \/ UpdateUserResolves \/ UpdateUserRejects \/ ReadBack

SpecStats == InitStats /\ [][NextStats]_vars

\* recordGameResult(won, guesses) completes and its stats are read back
\* before the next call
RecordGameInTurn ==
    /\ pc = "streak"
    /\ userStats.gamesPlayed < MaxGames
    /\ \E won \in BOOLEAN, guesses \in GuessCounts :
          /\ userStats' = recordGameResult(userStats, won, guesses, clientDay)
          /\ lastResult' = ResultRecord(TRUE, won, userStats, clientDay)
    /\ stored' = userStats'
    /\ gamesRecorded' = gamesRecorded + 1
    /\ started' = started + 1
    /\ UNCHANGED <<pendingUpdates, hintsRecorded, clientDay>>
    /\ StatsUnchanged

\* getTodayDate() changes
NextDay ==
    /\ pc = "streak"
    /\ clientDay < MaxDay
    /\ clientDay' = clientDay + 1
    /\ UNCHANGED <<userStats, stored, pendingUpdates, hintsRecorded,
                   gamesRecorded, started, lastResult>>
    /\ StatsUnchanged

NextStreak == RecordGameInTurn \/ NextDay

InitStreak ==
    /\ StatsIdle
    /\ HookIdle /\ ComponentIdle
    /\ ServerIdle /\ MiddlewareIdle
    /\ game = NoGame
    /\ lastSubmit = NoSubmit
    /\ pc = "streak"
    /\ ExprIdle /\ ScorerIdle

SpecStreak == InitStreak /\ [][NextStreak]_vars

(***************************************************************************)
(* Properties of the user stats                                            *)
(***************************************************************************)
\* every call has completed and the stored metadata has been read back
Settled == pc = "stats" /\ pendingUpdates = <<>> /\ userStats = stored

\* C28: when every call has completed, hintsPurchased counts the
\* recordHintPurchase calls and gamesPlayed the recordGameResult calls
\* whose update was stored.
C28_NoUpdateLost ==
    Settled =>
       /\ userStats.hintsPurchased = hintsRecorded
       /\ userStats.gamesPlayed = gamesRecorded

\* C29: gamesWon <= gamesPlayed and currentStreak <= maxStreak always, and
\* no recorded game lowers maxStreak.
C29_StatsStayOrdered ==
    /\ [](pc = "streak" =>
            /\ userStats.gamesWon <= userStats.gamesPlayed
            /\ userStats.currentStreak <= userStats.maxStreak)
    /\ [][pc = "streak" => userStats'.maxStreak >= userStats.maxStreak]_vars

\* a loss after wins on two consecutive days: the streak is 0, the maximum 2
C29_Witness ==
    /\ pc = "streak"
    /\ userStats.gamesPlayed = 3
    /\ userStats.gamesWon = 2
    /\ userStats.currentStreak = 0
    /\ userStats.maxStreak = 2

\* C30: after a recorded win currentStreak is at least 1, and the previous
\* streak plus 1 when the last game was played the day before; after a
\* recorded loss it is 0.
C30_WinGivesStreak ==
    (pc = "streak" /\ lastResult.happened) =>
       IF lastResult.won
       THEN /\ userStats.currentStreak >= 1
            /\ lastResult.before.lastPlayedDate = lastResult.date - 1 =>
                  userStats.currentStreak = lastResult.before.currentStreak + 1
       ELSE userStats.currentStreak = 0

====
